---- MODULE Spec2Model ----
(***************************************************************************)
(* Verification model of skytools' statistics collection                   *)
(* (python/skytools/stats.py, stats_metrics.py, stats_handlers.py).        *)
(*                                                                         *)
(* Python objects are modelled on a small heap: `dicts` holds the dict     *)
(* objects that have been a context's `data` map, `objs` the Metric        *)
(* instances.  A dict entry is a plain number or a reference to a Metric   *)
(* instance, so sharing of a dict or a Metric between a snapshot and the   *)
(* live map is visible in the model.                                       *)
(***************************************************************************)
EXTENDS Integers, Sequences, FiniteSets, TLC

\* ------------------------------------------------------------------ bounds
\* values passed to inc/avg/set are drawn from 1..MaxVal
MaxVal == 2
\* number of API calls in one behaviour
MaxOps == 4
\* dict objects that can exist (initial maps plus one per reset_stats)
MaxDicts == 4
\* Metric instances that can exist
MaxObjs == 3
\* clock readings are 0..MaxTime
MaxTime == 3
\* configure_context(interval = I) with I in 1..MaxInterval
MaxInterval == 2
\* handlers configured on the context
MaxHandlers == 2
MaxDepth == 2           \* longest chain of get_collector calls
MaxSets == 2            \* set calls made through collectors
MaxClock == 61          \* seconds on the socket handler's clock
MaxMetrics == 2         \* entries of a snapshot handed to a socket handler
\* process_stats calls in one behaviour

\* Context.interval after construction
DefaultInterval == 30
\* SocketHandler.__init__: exponential backoff parameters (seconds)
retry_start == 1
retry_max == 30
retry_factor == 2

Keys == {"a", "b"}
Vals == 1..MaxVal
DictIds == 1..MaxDicts
ObjIds == 1..MaxObjs
Contexts == {"main", "ref"}
Threads == {"t1", "t2"}

VARIABLES
    dicts,      \* heap of dict objects: DictIds -> [Keys -> entry]
    objs,       \* heap of Metric instances: ObjIds -> metric state
    ndicts,     \* number of dict objects allocated so far
    ctx_data,   \* Context.data of each context: the dict it refers to
    snaps,      \* the dicts returned by reset_stats, in call order
    exc,        \* exception the last call raised to its caller ("none")
    last,       \* the last call: its name, its key, its dict argument
    merges,     \* the dicts that have been passed to merge_stats
    nops,       \* calls made so far
    phase,      \* position in the scenario U1, reset_stats, U2, merge_stats
    used,       \* per key, the kinds of update call applied to it
    now,        \* the clock, time.time()
    ctx_time,   \* Context.time
    ctx_interval, \* Context.interval
    handlers,   \* Context.handlers: the handlers 1..handlers are configured
    fl,         \* the process_stats call in progress: its position and locals
    calls,      \* log of the process_stats calls
    pending,    \* the collector calls made since ctx.data was last replaced
    threads,    \* per thread, the call it is executing: position and locals
    tlog,       \* what the threads' calls completed, returned, delivered and raised
    coll,       \* the StatsContext collectors created so far and the keys they stored
    hnd,        \* a SocketHandler: its socket, its retry state and its peer
    lk,         \* a Handler's lock and the threads inside Handler.process/close
    cfg,        \* ctx.handlers by handler id, and the outcome of configure_handler
    agg,        \* Metric aggregates fed with sample sequences
    gau,        \* gauges of stats_metrics.py: two of one class, updated, merged, evaluated
    wire        \* what a handler wrote for a snapshot: log lines and frames

thrvars == <<threads, tlog>>
extvars == <<coll, hnd, lk, cfg, agg, gau, wire>>
flushvars == <<now, ctx_time, ctx_interval, handlers, fl, calls, pending, thrvars, extvars>>
vars == <<dicts, objs, ndicts, ctx_data, snaps, exc, last, merges, nops, phase, used,
          now, ctx_time, ctx_interval, handlers, fl, calls, pending, threads, tlog,
          coll, hnd, lk, cfg, agg, gau, wire>>

\* ------------------------------------------------------------ heap values
Missing == [kind |-> "missing", v |-> 0]
Num(n) == [kind |-> "number", v |-> n]
Ref(o) == [kind |-> "ref", v |-> o]

Free == [cls |-> "free", count |-> 0, temp |-> 0, value |-> 0]
EmptyDict == [k \in Keys |-> Missing]

CanAlloc(os) == \E o \in ObjIds : os[o].cls = "free"
NewObj(os) == CHOOSE o \in ObjIds : os[o].cls = "free" /\ \A p \in ObjIds : p < o => os[p].cls # "free"

\* result of a call: the heap after it and the exception it raised
R(ds, os, e) == [dicts |-> ds, objs |-> os, exc |-> e]
SetItem(ds, D, k, e) == [ds EXCEPT ![D][k] = e]

\* ---------------------------------------------------------------- metrics
\* Counter(value = 0)
Counter(value) == [cls |-> "Counter", count |-> 0, temp |-> 0, value |-> value]
\* Timer(value)
Timer(value) == [cls |-> "Timer", count |-> 0, temp |-> 0, value |-> value]

Counter_update(m, delta) == [m EXCEPT !.value = @ + delta]
Timer_update(m, delta) == [m EXCEPT !.value = @ + delta]
GaugeAMean_update(m, value) == [m EXCEPT !.count = @ + 1, !.temp = @ + value]

\* GaugeAMean(value): count = 0, _temp = 0, then update(value)
GaugeAMean(value) == GaugeAMean_update([cls |-> "GaugeAMean", count |-> 0, temp |-> 0, value |-> 0], value)
GaugeAvg(value) == GaugeAMean(value)

\* m.update(value), dispatched on the instance's class
update(m, value) ==
    CASE m.cls = "Counter" -> Counter_update(m, value)
      [] m.cls = "Timer" -> Timer_update(m, value)
      [] m.cls = "GaugeAMean" -> GaugeAMean_update(m, value)

\* attribute lookups `that.value`, `that.count`, `that._temp` succeed only on
\* instances whose class sets the attribute
HasValue(that, os) == that.kind = "ref" /\ os[that.v].cls \in {"Counter", "Timer"}
HasCount(that, os) == that.kind = "ref" /\ os[that.v].cls = "GaugeAMean"

Counter_merge(m, that, os) ==
    IF HasValue(that, os)
    THEN [obj |-> Counter_update(m, os[that.v].value), exc |-> "none"]
    ELSE [obj |-> m, exc |-> "AttributeError"]

GaugeAMean_merge_count_only(m, that, os) ==
    IF HasCount(that, os)
    THEN [obj |-> [m EXCEPT !.count = @ + os[that.v].count], exc |-> "none"]
    ELSE [obj |-> m, exc |-> "AttributeError"]

GaugeAMean_merge(m, that, os) ==
    IF HasCount(that, os)
    THEN [obj |-> [m EXCEPT !.count = @ + os[that.v].count, !.temp = @ + os[that.v].temp],
          exc |-> "none"]
    ELSE [obj |-> m, exc |-> "AttributeError"]

\* Metric.merge, inherited by Timer
Metric_merge(m, that, os) == [obj |-> m, exc |-> "NotImplementedError"]

merge(m, that, os) ==
    CASE m.cls = "Counter" -> Counter_merge(m, that, os)
      [] m.cls = "GaugeAMean" -> GaugeAMean_merge(m, that, os)
      [] m.cls = "Timer" -> Metric_merge(m, that, os)

\* eval() as the exact fraction <<numerator, denominator>>
Counter_eval(m) == <<m.value, 1>>
GaugeAMean_eval(m) == <<m.temp, m.count>>

\* ------------------------------------------------- collector and context
\* StatsContext.set with an empty prefix: ctx.data[k] = value
set(st, D, k, e) == R(SetItem(st.dicts, D, k, e), st.objs, "none")

\* StatsContext.inc: ctx.data[k] += value; KeyError -> insert;
\* TypeError -> ctx.data[k].update(value)
inc_overwrite(st, D, k, value) == R(SetItem(st.dicts, D, k, Num(value)), st.objs, "none")
inc(st, D, k, value) ==
    LET e == st.dicts[D][k] IN
    CASE e.kind = "missing" -> R(SetItem(st.dicts, D, k, Num(value)), st.objs, "none")
      [] e.kind = "number" -> R(SetItem(st.dicts, D, k, Num(e.v + value)), st.objs, "none")
      [] e.kind = "ref" -> R(st.dicts, [st.objs EXCEPT ![e.v] = update(@, value)], "none")

\* StatsContext.avg: ctx.data[k].update(value); KeyError -> GaugeAvg(value)
avg(st, D, k, value) ==
    LET e == st.dicts[D][k] IN
    CASE e.kind = "missing" ->
            LET o == NewObj(st.objs) IN
            R(SetItem(st.dicts, D, k, Ref(o)), [st.objs EXCEPT ![o] = GaugeAvg(value)], "none")
      [] e.kind = "number" -> R(st.dicts, st.objs, "AttributeError")
      [] e.kind = "ref" -> R(st.dicts, [st.objs EXCEPT ![e.v] = update(@, value)], "none")

\* one iteration of merge_stats' loop
merge_entry_overwrite(st, D, k, v) == R(SetItem(st.dicts, D, k, v), st.objs, "none")
merge_entry(st, D, k, v) ==
    LET e == st.dicts[D][k] IN
    CASE e.kind = "missing" -> R(SetItem(st.dicts, D, k, v), st.objs, "none")
      [] e.kind = "number" /\ v.kind = "number" ->
            R(SetItem(st.dicts, D, k, Num(e.v + v.v)), st.objs, "none")
      [] e.kind = "number" /\ v.kind # "number" -> R(st.dicts, st.objs, "AttributeError")
      [] e.kind = "ref" ->
            LET r == merge(st.objs[e.v], v, st.objs) IN
            R(st.dicts, [st.objs EXCEPT ![e.v] = r.obj], r.exc)

RECURSIVE merge_loop(_, _, _, _)
merge_loop(st, data, D, order) ==
    IF order = <<>> THEN R(st.dicts, st.objs, "none")
    ELSE LET k == Head(order)
             r == merge_entry(st, D, k, st.dicts[data][k])
         IN IF r.exc # "none" THEN r ELSE merge_loop(r, data, D, Tail(order))

\* the orders in which data.iteritems() can yield the keys of a dict
PresentKeys(d) == {k \in Keys : d[k].kind # "missing"}
Orders(S) == {s \in UNION {[1..n -> S] : n \in 0..Cardinality(Keys)} :
                 Len(s) = Cardinality(S) /\ \A k \in S : \E i \in 1..Len(s) : s[i] = k}

\* merge_stats(data, context): data and the context's map D are dict objects
merge_stats(st, data, D, order) == merge_loop(st, data, D, order)

\* ------------------------------------------------------------ observation
\* an entry with the Metric it refers to
Resolve(e, os) == IF e.kind = "ref" THEN os[e.v] ELSE [cls |-> e.kind, count |-> 0, temp |-> 0, value |-> e.v]
View(D) == [k \in Keys |-> Resolve(dicts[D][k], objs)]
Live == View(ctx_data["main"])


\* reset_stats: cur_data = ctx.data; ctx.data = {} (dict n + 1 is the fresh
\* one); returns cur_data
reset_stats_keep_map(D, n) == [cur_data |-> D, data |-> D]
reset_stats(D, n) == [cur_data |-> D, data |-> n + 1]

Idle == [pc |-> "idle", data |-> 0, todo |-> <<>>]

\* a thread outside any call, and the empty record of the threads' calls
NoCall == [pc |-> "idle", op |-> "", k |-> "", k0 |-> "", arg |-> 0, d |-> 0, x |-> 0,
           swapped |-> FALSE]
NoLog == [incs |-> [k \in Keys |-> 0], delivered |-> [k \in Keys |-> 0],
          returned |-> <<>>, raised |-> {}]

\* -------------------------------------------------------------- initial
\* the parts of the program that the specifications below are about
\* strings are sequences of characters; '' is <<>>
NoCollector == [prefix |-> <<>>, delim |-> <<>>, ctx |-> "", depth |-> 0]
NoCollectors == [cur |-> NoCollector, data |-> [c \in Contexts |-> {}], nsets |-> 0,
                 last |-> [op |-> "init", p |-> NoCollector, n |-> <<>>, c |-> NoCollector,
                           k |-> <<>>, v |-> 0]]

\* no socket handler constructed yet
NoHandler == [kind |-> "none", sock |-> "none", retry_set |-> FALSE, retry_time |-> 0,
              retry_period |-> 0, now |-> 0, fails |-> 0, fail_at |-> 0,
              last |-> [n |-> 0, tried |-> 0, enc_error |-> FALSE, attempts |-> 0, sent |-> 0, had_sock |-> FALSE,
                        send_error |-> FALSE, exc |-> "none"]]

\* the handler's RLock (free), no process or close call in progress
NoReturn == [t |-> "", op |-> "none", held0 |-> 0, held1 |-> 0, exc |-> "none"]
NoLock == [owner |-> "", count |-> 0, stack |-> [t \in Threads |-> <<>>], last |-> NoReturn]

\* the handler registry after import (register_handler('log', SkyLogHandler))
\* and the context's empty handler map
Schemes == {"log", "tnetstr"}
HandlerNames == {"", "h1"}
Backends == {<<sch>> : sch \in Schemes} \cup {<<sch, "://">> : sch \in Schemes}
Hids == Backends \cup {<<n>> : n \in HandlerNames \ {""}}
NoConfig == [registry |-> [sch \in Schemes |-> IF sch = "log" THEN "SkyLogHandler" ELSE ""],
             handlers |-> [h \in Hids |-> ""],
             last |-> [op |-> "none", hid |-> <<>>, unknown |-> FALSE, warned |-> FALSE,
                       stored |-> FALSE, exc |-> "none"]]

\* no aggregate constructed yet
NoMetric == [cls |-> "none", count |-> 0, temp |-> 0, value |-> 0]
NoAggregates == [cls |-> "none", A |-> <<>>, B |-> <<>>, a |-> NoMetric, b |-> NoMetric,
                 merged |-> FALSE, exc |-> "none"]

\* no gauge constructed yet
NoGauges == [cls |-> "none", a |-> NoMetric, b |-> NoMetric, A |-> <<>>, B |-> <<>>,
             last |-> [op |-> "none", exc |-> "none", before |-> NoMetric, arg |-> <<>>,
                       results |-> {}]]
\* nothing written yet
NoWire == [kind |-> "none", extra_attrs |-> [type |-> "callable"], data |-> <<>>,
           emitted |-> <<>>, emits |-> 0, lines |-> <<>>, frames |-> <<>>, exc |-> "none"]

InitExt ==
    /\ coll = NoCollectors
    /\ hnd = NoHandler
    /\ lk = NoLock
    /\ cfg = NoConfig
    /\ agg = NoAggregates
    /\ gau = NoGauges
    /\ wire = NoWire

Init ==
    /\ dicts = [D \in DictIds |-> EmptyDict]
    /\ objs = [o \in ObjIds |-> Free]
    /\ ndicts = 2
    /\ ctx_data = [c \in Contexts |-> IF c = "main" THEN 1 ELSE 2]
    /\ snaps = <<>>
    /\ exc = "none"
    /\ last = [op |-> "init", k |-> "", arg |-> 0]
    /\ merges = {}
    /\ nops = 0
    /\ phase = "U1"
    /\ used = [k \in Keys |-> {}]
    /\ now = 0
    /\ ctx_time = 0
    /\ ctx_interval = DefaultInterval
    /\ handlers = 0
    /\ fl = Idle
    /\ calls = <<>>
    /\ pending = <<>>
    /\ threads = [t \in Threads |-> NoCall]
    /\ tlog = NoLog
    /\ InitExt

St == [dicts |-> dicts, objs |-> objs]
Main == ctx_data["main"]
RefD == ctx_data["ref"]
FreeObjs(os) == Cardinality({o \in ObjIds : os[o].cls = "free"})
Called(op, k, arg) ==
    /\ last' = [op |-> op, k |-> k, arg |-> arg]
    /\ nops' = nops + 1
    /\ UNCHANGED flushvars

Raised(r) == IF r.exc = "none" THEN {} ELSE {"raised"}

\* ============================================================ SpecTransparent
\* Two contexts receive the same collector calls; only "main" is reset and
\* has the snapshot merged back.
T_inc(k, value) ==
    /\ phase \in {"U1", "U2"} /\ nops < MaxOps
    /\ LET r1 == inc(St, Main, k, value)
           r2 == inc(r1, RefD, k, value)
       IN /\ dicts' = r2.dicts /\ objs' = r2.objs /\ exc' = r1.exc
          /\ used' = [used EXCEPT ![k] = @ \cup {"inc"} \cup Raised(r1) \cup Raised(r2)]
    /\ Called("inc", k, 0)
    /\ UNCHANGED <<ndicts, ctx_data, snaps, merges, phase>>

T_avg(k, value) ==
    /\ phase \in {"U1", "U2"} /\ nops < MaxOps
    /\ FreeObjs(objs) >= Cardinality({D \in {Main, RefD} : dicts[D][k].kind = "missing"})
    /\ LET r1 == avg(St, Main, k, value)
           r2 == avg(r1, RefD, k, value)
       IN /\ dicts' = r2.dicts /\ objs' = r2.objs /\ exc' = r1.exc
          /\ used' = [used EXCEPT ![k] = @ \cup {"avg"} \cup Raised(r1) \cup Raised(r2)]
    /\ Called("avg", k, 0)
    /\ UNCHANGED <<ndicts, ctx_data, snaps, merges, phase>>

T_reset_stats ==
    /\ phase = "U1" /\ nops < MaxOps /\ ndicts < MaxDicts
    /\ LET r == reset_stats(Main, ndicts) IN
        /\ ctx_data' = [ctx_data EXCEPT !["main"] = r.data]
        /\ snaps' = Append(snaps, r.cur_data)
        /\ Called("reset_stats", "", r.cur_data)
    /\ ndicts' = ndicts + 1
    /\ exc' = "none"
    /\ phase' = "U2"
    /\ UNCHANGED <<dicts, objs, merges, used>>

T_merge_stats ==
    /\ phase = "U2" /\ nops < MaxOps
    /\ \E order \in Orders(PresentKeys(dicts[snaps[1]])) :
        LET r == merge_stats(St, snaps[1], Main, order)
        IN dicts' = r.dicts /\ objs' = r.objs /\ exc' = r.exc
    /\ Called("merge_stats", "", snaps[1])
    /\ merges' = merges \cup {snaps[1]}
    /\ phase' = "merged"
    /\ UNCHANGED <<ndicts, ctx_data, snaps, used>>

NextTransparent ==
    \/ \E k \in Keys, value \in Vals : T_inc(k, value)
    \/ \E k \in Keys, value \in Vals : T_avg(k, value)
    \/ T_reset_stats
    \/ T_merge_stats

SpecTransparent == Init /\ [][NextTransparent]_vars

\* the value a reader of the key gets: the number, or the Metric's eval()
Evaluated(x) ==
    CASE x.cls = "number" -> <<x.value, 1>>
      [] x.cls = "GaugeAMean" -> GaugeAMean_eval(x)
      [] OTHER -> Counter_eval(x)
SameEvaluated(x, y) ==
    IF x.cls = "missing" \/ y.cls = "missing" THEN x.cls = y.cls
    ELSE Evaluated(x)[1] * Evaluated(y)[2] = Evaluated(y)[1] * Evaluated(x)[2]
OneKindOfUpdate == \A k \in Keys : used[k] \subseteq {"inc"} \/ used[k] \subseteq {"avg"}

NoUpdateRaised == \A k \in Keys : "raised" \notin used[k]

Inc(k, value) ==
    /\ nops < MaxOps
    /\ LET r == inc(St, Main, k, value)
       IN dicts' = r.dicts /\ objs' = r.objs /\ exc' = r.exc
    /\ Called("inc", k, value)
    /\ UNCHANGED <<ndicts, ctx_data, snaps, merges, phase, used>>

Avg(k, value) ==
    /\ nops < MaxOps
    /\ dicts[Main][k].kind = "missing" => CanAlloc(objs)
    /\ LET r == avg(St, Main, k, value)
       IN dicts' = r.dicts /\ objs' = r.objs /\ exc' = r.exc
    /\ Called("avg", k, 0)
    /\ UNCHANGED <<ndicts, ctx_data, snaps, merges, phase, used>>

\* set(k, <number>)
SetNumber(k, value) ==
    /\ nops < MaxOps
    /\ LET r == set(St, Main, k, Num(value))
       IN dicts' = r.dicts /\ objs' = r.objs /\ exc' = r.exc
    /\ Called("set", k, 0)
    /\ UNCHANGED <<ndicts, ctx_data, snaps, merges, phase, used>>

\* set(k, Counter()) and set(k, Timer(0)): a Metric constructed for the call
SetMetric(k, m) ==
    /\ nops < MaxOps
    /\ CanAlloc(objs)
    /\ LET o == NewObj(objs)
           r == set([dicts |-> dicts, objs |-> [objs EXCEPT ![o] = m]], Main, k, Ref(o))
       IN dicts' = r.dicts /\ objs' = r.objs /\ exc' = r.exc
    /\ Called("set", k, 0)
    /\ UNCHANGED <<ndicts, ctx_data, snaps, merges, phase, used>>

ResetStats ==
    /\ nops < MaxOps /\ ndicts < MaxDicts
    /\ LET r == reset_stats(Main, ndicts) IN
        /\ ctx_data' = [ctx_data EXCEPT !["main"] = r.data]
        /\ snaps' = Append(snaps, r.cur_data)
        /\ Called("reset_stats", "", r.cur_data)
    /\ ndicts' = ndicts + 1
    /\ exc' = "none"
    /\ UNCHANGED <<dicts, objs, merges, phase, used>>

\* merge_stats(d) with d a map that reset_stats returned earlier
MergeStats(i) ==
    /\ nops < MaxOps
    /\ \E order \in Orders(PresentKeys(dicts[snaps[i]])) :
        LET r == merge_stats(St, snaps[i], Main, order)
        IN dicts' = r.dicts /\ objs' = r.objs /\ exc' = r.exc
    /\ Called("merge_stats", "", snaps[i])
    /\ merges' = merges \cup {snaps[i]}
    /\ UNCHANGED <<ndicts, ctx_data, snaps, phase, used>>

Next ==
    \/ \E k \in Keys, value \in Vals : Inc(k, value)
    \/ \E k \in Keys, value \in Vals : Avg(k, value)
    \/ \E k \in Keys, value \in Vals : SetNumber(k, value)
    \/ \E k \in Keys, m \in {Counter(0), Timer(0)} : SetMetric(k, m)
    \/ ResetStats
    \/ \E i \in 1..Len(snaps) : MergeStats(i)

Spec == Init /\ [][Next]_vars

IsCall(op) == nops' = nops + 1 /\ last'.op = op
IsUpdate == IsCall("inc") \/ IsCall("avg") \/ IsCall("set")

\* C4: reset_stats returns the map that was live, with exactly its entries,
\* and leaves the context with an empty map; a reset_stats right after a
\* reset_stats returns an empty map; an inc/avg/set after a reset lands in the
\* live map and changes no snapshot returned earlier (snapshots that were
\* handed back to merge_stats share their Metric instances with the live map
\* and are left out).
C4_SnapshotStep ==
    /\ IsCall("reset_stats") =>
        /\ last'.arg = Main /\ snaps' = Append(snaps, Main)
        /\ dicts'[last'.arg] = dicts[Main] /\ objs' = objs
        /\ ctx_data'["main"] # Main
        /\ dicts'[ctx_data'["main"]] = EmptyDict
    /\ (IsCall("reset_stats") /\ last.op = "reset_stats") => dicts'[last'.arg] = EmptyDict
    /\ (IsUpdate /\ merges = {}) =>
        /\ \A i \in 1..Len(snaps) :
            [k \in Keys |-> Resolve(dicts'[snaps[i]][k], objs')] = View(snaps[i])
        /\ exc' = "none" => dicts'[ctx_data'["main"]][last'.k].kind # "missing"
Compatible(k, data) == merge_entry(St, Main, k, dicts[data][k]).exc = "none"
MergedEntry(k, data) ==
    LET r == merge_entry(St, Main, k, dicts[data][k]) IN Resolve(r.dicts[Main][k], r.objs)

\* C10: merge_stats does not raise on an incoming map with a type-incompatible
\* entry; it leaves that entry's stored value alone and merges every other
\* entry of the incoming map.
C10_MergeStep ==
    IsCall("merge_stats") =>
        /\ exc' = "none"
        /\ \A k \in PresentKeys(dicts[last'.arg]) :
            Resolve(dicts'[Main][k], objs') =
                IF Compatible(k, last'.arg) THEN MergedEntry(k, last'.arg) ELSE Live[k]
C10_MergeSurvivesMismatch == [][C10_MergeStep]_vars


\* C11: a merge_stats call that returns inserts every incoming key that was
\* absent with the incoming value, stores the sum where the stored and the
\* incoming value are plain numbers, and where the stored value is a Metric
\* keeps it stored and invokes its merge with the incoming value; whether it
\* returns or raises, keys that are not in the incoming map are unchanged.
C11_MergeStep ==
    IsCall("merge_stats") =>
        /\ \A k \in Keys \ PresentKeys(dicts[last'.arg]) :
              dicts'[Main][k] = dicts[Main][k] /\ Resolve(dicts'[Main][k], objs') = Live[k]
        /\ exc' = "none" =>
              \A k \in PresentKeys(dicts[last'.arg]) :
                  LET e == dicts[Main][k]
                      v == dicts[last'.arg][k]
                  IN /\ e.kind = "missing" => dicts'[Main][k] = v
                     /\ (e.kind = "number" /\ v.kind = "number") =>
                            dicts'[Main][k] = Num(e.v + v.v)
                     /\ e.kind = "ref" =>
                            /\ dicts'[Main][k] = e
                            /\ objs'[e.v] = merge(objs[e.v], v, objs).obj
C12_IncStep ==
    IsCall("inc") =>
        LET k == last'.k
            v == last'.arg
            e == dicts[Main][k]
        IN /\ exc' = "none"
           /\ e.kind = "missing" => dicts'[Main][k] = Num(v)
           /\ e.kind = "number" => dicts'[Main][k] = Num(e.v + v)
           /\ e.kind = "ref" => dicts'[Main][k] = e /\ objs'[e.v] = update(objs[e.v], v)
           /\ \A k2 \in Keys \ {k} :
                 dicts'[Main][k2] = dicts[Main][k2] /\ Resolve(dicts'[Main][k2], objs') = Live[k2]
C12_IncDispatch == [][C12_IncStep]_vars

C12_Witness ==
    /\ last.op = "inc" /\ exc = "none"
    /\ dicts[Main][last.k].kind = "ref"
    /\ objs[dicts[Main][last.k].v].cls = "GaugeAMean"
    /\ objs[dicts[Main][last.k].v].count = 2
    /\ \E k2 \in Keys : dicts[Main][k2].kind = "number" /\ dicts[Main][k2].v > MaxVal


\* ================================================================== SpecFlush
\* One thread calls process_stats; collector calls and the clock interleave
\* with it between its handler invocations.
Outcomes == {"none", "Exception", "KeyboardInterrupt", "SystemExit"}
ControlSignals == {"KeyboardInterrupt", "SystemExit"}

InitFlush ==
    /\ dicts = [D \in DictIds |-> EmptyDict]
    /\ objs = [o \in ObjIds |-> Free]
    /\ ndicts = 2
    /\ ctx_data = [c \in Contexts |-> IF c = "main" THEN 1 ELSE 2]
    /\ snaps = <<>>
    /\ exc = "none"
    /\ last = [op |-> "init", k |-> "", arg |-> 0]
    /\ merges = {}
    /\ nops = 0
    /\ phase = "U1"
    /\ used = [k \in Keys |-> {}]
    /\ now = 0
    /\ ctx_time = 0
    /\ ctx_interval \in 1..MaxInterval
    /\ handlers = 0
    /\ fl = Idle
    /\ calls = <<>>
    /\ pending = <<>>
    /\ threads = [t \in Threads |-> NoCall]
    /\ tlog = NoLog
    /\ InitExt

\* process_stats line 444: the early return
gated_at_interval(t, time, interval, force) == t - time <= interval /\ ~force
gated(t, time, interval, force) == t - time < interval /\ ~force

\* Handler.process: acquire, emit under try/finally, release; what emit
\* raises leaves process
Handler_process(emit_raises) == emit_raises

\* process_stats lines 449-452: try: handler.process(data) / except: log;
\* the exception that leaves the try statement
try_process_no_except(e) == e
try_process(e) == "none"

Tick ==
    /\ now < MaxTime
    /\ now' = now + 1
    /\ UNCHANGED <<thrvars, extvars, dicts, objs, ndicts, ctx_data, snaps, exc, last, merges, nops, phase, used,
                   ctx_time, ctx_interval, handlers, fl, calls, pending>>

\* configure_handler: ctx.handlers[hid] = hnd for a new handler id; the
\* program configures its handlers before its first process_stats call
ConfigureHandler ==
    /\ handlers < MaxHandlers /\ calls = <<>>
    /\ handlers' = handlers + 1
    /\ UNCHANGED <<thrvars, extvars, dicts, objs, ndicts, ctx_data, snaps, exc, last, merges, nops, phase, used,
                   now, ctx_time, ctx_interval, fl, calls, pending>>

\* inc(name) with the default value = 1
F_inc(k) ==
    /\ nops < MaxOps
    /\ LET r == inc(St, Main, k, 1)
       IN dicts' = r.dicts /\ objs' = r.objs /\ exc' = r.exc
    /\ last' = [op |-> "inc", k |-> k, arg |-> 0]
    /\ nops' = nops + 1
    /\ UNCHANGED <<thrvars, extvars, ndicts, ctx_data, snaps, merges, phase, used,
                   now, ctx_time, ctx_interval, handlers, fl, calls, pending>>

Call(force, flushed, data) ==
    [t |-> now, time0 |-> ctx_time, force |-> force, flushed |-> flushed, hs |-> handlers,
     data |-> data, inv |-> <<>>, ordinary |-> FALSE, control |-> FALSE, seen |-> {},
     upds |-> IF flushed THEN pending ELSE <<>>, raised |-> "none", done |-> ~flushed]

\* process_stats up to the handler loop: the gate, ctx.time = now,
\* data = reset_stats(ctx), and the list ctx.handlers.items()
\* the log keeps the previous call and the current one
Log(c) == IF Len(calls) < 2 THEN Append(calls, c) ELSE <<calls[2], c>>

ProcessStats(force) ==
    /\ fl.pc = "idle" /\ nops < MaxOps /\ ndicts < MaxDicts
    /\ IF gated(now, ctx_time, ctx_interval, force)
       THEN /\ calls' = Log(Call(force, FALSE, 0))
            /\ UNCHANGED <<thrvars, extvars, ctx_time, ctx_data, ndicts, snaps, fl, pending>>
       ELSE LET r == reset_stats(Main, ndicts) IN
            /\ ctx_time' = now
            /\ ctx_data' = [ctx_data EXCEPT !["main"] = r.data]
            /\ ndicts' = ndicts + 1
            /\ snaps' = Append(snaps, r.cur_data)
            /\ fl' = [pc |-> "handlers", data |-> r.cur_data, todo |-> [i \in 1..handlers |-> i]]
            /\ calls' = Log(Call(force, TRUE, r.cur_data))
            /\ pending' = IF r.data = Main THEN pending ELSE <<>>
    /\ last' = [op |-> "process_stats", k |-> "", arg |-> 0]
    /\ nops' = nops + 1
    /\ exc' = "none"
    /\ UNCHANGED <<thrvars, extvars, dicts, objs, merges, phase, used, now, ctx_interval, handlers>>

\* one iteration of the handler loop: handler.process(data) returns or raises
HandlerProcess(emit_raises) ==
    /\ fl.pc = "handlers" /\ fl.todo # <<>>
    /\ LET h == Head(fl.todo)
           e == try_process(Handler_process(emit_raises))
           n == Len(calls)
           c == [calls[n] EXCEPT !.inv = Append(@, h),
                                 !.ordinary = @ \/ emit_raises = "Exception",
                                 !.control = @ \/ emit_raises \in ControlSignals,
                                 !.seen = @ \cup {[data |-> fl.data, view |-> View(fl.data)]}]
       IN IF e = "none"
          THEN /\ fl' = [fl EXCEPT !.todo = Tail(@)]
               /\ calls' = [calls EXCEPT ![n] = c]
               /\ exc' = exc
          ELSE /\ fl' = Idle
               /\ calls' = [calls EXCEPT ![n] = [c EXCEPT !.raised = e, !.done = TRUE]]
               /\ exc' = e
    /\ UNCHANGED <<thrvars, extvars, dicts, objs, ndicts, ctx_data, snaps, last, merges, nops, phase, used,
                   now, ctx_time, ctx_interval, handlers, pending>>

\* the loop is over: process_stats returns
ProcessStatsReturn ==
    /\ fl.pc = "handlers" /\ fl.todo = <<>>
    /\ fl' = Idle
    /\ calls' = [calls EXCEPT ![Len(calls)].done = TRUE]
    /\ UNCHANGED <<thrvars, extvars, dicts, objs, ndicts, ctx_data, snaps, exc, last, merges, nops, phase, used,
                   now, ctx_time, ctx_interval, handlers, pending>>

NextFlush ==
    \/ Tick
    \/ ConfigureHandler
    \/ \E k \in {"a"} : F_inc(k)
    \/ \E force \in BOOLEAN : ProcessStats(force)
    \/ \E e \in Outcomes : HandlerProcess(e)
    \/ ProcessStatsReturn

SpecFlush == InitFlush /\ [][NextFlush]_vars

\* ---------------------------------------------------------------- C2, C3, C9
AllOnce(n) == [i \in 1..n |-> i]
Times(h, inv) == Cardinality({i \in 1..Len(inv) : inv[i] = h})
Returned == {i \in 1..Len(calls) : calls[i].done}
CloseUnforcedPair ==
    /\ Len(calls) = 2 /\ Returned = {1, 2}
    /\ ~calls[1].force /\ ~calls[2].force
    /\ calls[2].t - calls[1].t < ctx_interval

\* C2 as stated: two unforced calls less than I apart invoke each handler
\* configured at both of them exactly once in total.
C2_PairInvokesOnce ==
    CloseUnforcedPair =>
        \A h \in 1..calls[1].hs : Times(h, calls[1].inv) + Times(h, calls[2].inv) = 1

\* C2: an unforced process_stats call invokes every configured handler once
\* when at least I has passed since the context's time (its construction or
\* its last flushing call) and invokes none otherwise, so two unforced calls
\* less than I apart invoke each handler at most once in total and the second
\* flushes only if the first did not; a forced call always invokes every
\* configured handler exactly once.
C2_FlushGating ==
    /\ \A i \in Returned :
          LET c == calls[i] IN
          /\ c.flushed = (c.force \/ c.t - c.time0 >= ctx_interval)
          /\ c.inv = IF c.flushed THEN AllOnce(c.hs) ELSE <<>>
    /\ CloseUnforcedPair =>
          /\ ~(calls[1].flushed /\ calls[2].flushed)
          /\ \A h \in 1..MaxHandlers : Times(h, calls[1].inv) + Times(h, calls[2].inv) <= 1

C2_Witness ==
    /\ CloseUnforcedPair
    /\ calls[1].hs = MaxHandlers /\ calls[2].hs = MaxHandlers
    /\ calls[1].flushed /\ calls[1].inv = AllOnce(MaxHandlers)
    /\ calls[2].t > calls[1].t /\ calls[2].inv = <<>>

\* C3: in a flush in which a handler raises an ordinary exception every
\* configured handler is still invoked exactly once, all of them with the one
\* snapshot map, process_stats returns without raising, and the flush after
\* it invokes every handler again.
C3_HandlerIsolation ==
    \A i \in Returned :
        LET c == calls[i] IN
        (c.flushed /\ c.ordinary) =>
            /\ c.inv = AllOnce(c.hs)
            /\ \A s \in c.seen : s.data = c.data /\ \A s2 \in c.seen : s2.view = s.view
            /\ c.raised = "none"
            /\ \A j \in Returned : (j > i /\ calls[j].flushed) => calls[j].inv = AllOnce(calls[j].hs)

C3_Witness ==
    /\ Returned = {1, 2}
    /\ calls[1].flushed /\ calls[1].ordinary /\ ~calls[1].control
    /\ calls[1].hs = MaxHandlers /\ calls[1].inv = AllOnce(MaxHandlers)
    /\ View(calls[1].data)["a"].value > 0
    /\ calls[2].flushed /\ calls[2].inv = AllOnce(MaxHandlers)

\* C9: a KeyboardInterrupt or SystemExit raised by a handler during a flush
\* leaves process_stats as that exception.
C9_ControlSignalsPropagate ==
    \A i \in Returned : calls[i].control => calls[i].raised \in ControlSignals

\* ================================================================ SpecDeliver
\* Collector calls interleaved with forced process_stats calls of one
\* flusher; pending records the collector calls since the last swap.
Update(op, k, value) == [op |-> op, k |-> k, arg |-> value, during |-> fl.pc = "handlers"]

D_inc(k, value) ==
    /\ nops < MaxOps
    /\ LET r == inc(St, Main, k, value)
       IN dicts' = r.dicts /\ objs' = r.objs /\ exc' = r.exc
    /\ pending' = Append(pending, Update("inc", k, value))
    /\ last' = [op |-> "inc", k |-> k, arg |-> 0]
    /\ nops' = nops + 1
    /\ UNCHANGED <<thrvars, extvars, ndicts, ctx_data, snaps, merges, phase, used,
                   now, ctx_time, ctx_interval, handlers, fl, calls>>

D_avg(k, value) ==
    /\ nops < MaxOps
    /\ dicts[Main][k].kind = "missing" => CanAlloc(objs)
    /\ LET r == avg(St, Main, k, value)
       IN dicts' = r.dicts /\ objs' = r.objs /\ exc' = r.exc
    /\ pending' = Append(pending, Update("avg", k, value))
    /\ last' = [op |-> "avg", k |-> k, arg |-> 0]
    /\ nops' = nops + 1
    /\ UNCHANGED <<thrvars, extvars, ndicts, ctx_data, snaps, merges, phase, used,
                   now, ctx_time, ctx_interval, handlers, fl, calls>>

NextDeliver ==
    \/ ConfigureHandler
    \/ \E k \in Keys : D_inc(k, 1)              \* inc(name): value defaults to 1
    \/ \E k \in Keys, value \in Vals : D_avg(k, value)
    \/ ProcessStats(TRUE)
    \/ HandlerProcess("none")
    \/ ProcessStatsReturn

SpecDeliver == Init /\ [][NextDeliver]_vars

\* ------------------------------------------------------------------------ C8
\* the map that a sequence of collector calls builds from an empty map
RECURSIVE Replay(_, _)
Replay(st, upds) ==
    IF upds = <<>> THEN st
    ELSE LET u == Head(upds)
             r == IF u.op = "inc" THEN inc(st, 1, u.k, u.arg) ELSE avg(st, 1, u.k, u.arg)
         IN Replay(r, Tail(upds))
ReplayView(upds) ==
    LET r == Replay(R([D \in DictIds |-> EmptyDict], [o \in ObjIds |-> Free], "none"), upds)
    IN [k \in Keys |-> Resolve(r.dicts[1][k], r.objs)]

\* C8: the snapshot of every flush, as each handler receives it and as it
\* stays afterwards, holds exactly the collector calls made since the swap of
\* the flush before it (those made while that flush's handlers ran included),
\* and the live map holds exactly the calls made since the last swap.
C8_ExactlyOnceDelivery ==
    /\ \A i \in 1..Len(calls) :
          LET c == calls[i] IN
          c.flushed =>
              /\ View(c.data) = ReplayView(c.upds)
              /\ \A s \in c.seen : s.data = c.data /\ s.view = ReplayView(c.upds)
    /\ Live = ReplayView(pending)

C8_Witness ==
    /\ Len(calls) = 2 /\ Returned = {1, 2}
    /\ calls[1].hs = MaxHandlers /\ calls[1].inv = AllOnce(MaxHandlers)
    /\ calls[2].inv = AllOnce(MaxHandlers)
    /\ calls[1].upds # <<>>
    /\ \E j \in 1..Len(calls[2].upds) : calls[2].upds[j].during
    /\ \E s \in calls[2].seen : \E k \in Keys : s.view[k].cls # "missing"
    /\ pending = <<>>

\* ================================================================ SpecThreads
\* Threads call inc, avg and process_stats(force = True) on the one context.
\* The interpreter can switch threads between any two bytecodes, so a call is
\* a sequence of steps, one per access to ctx.data or to a dict.
\* the context after construction and one configure_handler call
InitThreads ==
    /\ dicts = [D \in DictIds |-> EmptyDict]
    /\ objs = [o \in ObjIds |-> Free]
    /\ ndicts = 2
    /\ ctx_data = [c \in Contexts |-> IF c = "main" THEN 1 ELSE 2]
    /\ snaps = <<>>
    /\ exc = "none"
    /\ last = [op |-> "init", k |-> "", arg |-> 0]
    /\ merges = {}
    /\ nops = 0
    /\ phase = "U1"
    /\ used = [k \in Keys |-> {}]
    /\ now = 0
    /\ ctx_time = 0
    /\ ctx_interval = DefaultInterval
    /\ handlers = 1
    /\ fl = Idle
    /\ calls = <<>>
    /\ pending = <<>>
    /\ threads = [t \in Threads |-> NoCall]
    /\ tlog = NoLog
    /\ InitExt

Frame(t) == threads[t]
Goto(t, pc) == threads' = [threads EXCEPT ![t].pc = pc]
\* the call of thread t returns
Return(t) == threads' = [threads EXCEPT ![t] = NoCall]
\* the call of thread t raises exc to its caller
Raise(t, e) ==
    /\ threads' = [threads EXCEPT ![t] = NoCall]
    /\ tlog' = [tlog EXCEPT !.raised = @ \cup {[op |-> Frame(t).op, k |-> Frame(t).k, k0 |-> Frame(t).k0, exc |-> e,
                                               swapped |-> Frame(t).swapped]}]

\* inc, line 396: self.ctx.data (the dict object goes on the stack)
inc_load(t, k, value) ==
    /\ Frame(t).pc = "idle" /\ nops < MaxOps
    /\ threads' = [threads EXCEPT ![t] = [pc |-> "inc_subscr", op |-> "inc", k |-> k,
                                         k0 |-> dicts[Main][k].kind, arg |-> value, d |-> Main, x |-> 0, swapped |-> FALSE]]
    /\ used' = [used EXCEPT ![k] = @ \cup {"inc"}]
    /\ nops' = nops + 1
    /\ UNCHANGED <<extvars, dicts, objs, ndicts, ctx_data, snaps, exc, last, merges, phase,
                   now, ctx_time, ctx_interval, handlers, fl, calls, pending, tlog>>

\* inc, line 396: d[k] (KeyError), then + value (TypeError on a Metric)
inc_subscr(t) ==
    /\ Frame(t).pc = "inc_subscr"
    /\ LET e == dicts[Frame(t).d][Frame(t).k] IN
       CASE e.kind = "missing" -> Goto(t, "inc_KeyError_load")
         [] e.kind = "number" ->
                threads' = [threads EXCEPT ![t].pc = "inc_store", ![t].x = e.v + Frame(t).arg]
         [] e.kind = "ref" -> Goto(t, "inc_TypeError_load")
    /\ UNCHANGED <<extvars, dicts, objs, ndicts, ctx_data, snaps, exc, last, merges, nops, phase, used,
                   now, ctx_time, ctx_interval, handlers, fl, calls, pending, tlog>>

\* the call of thread t has added its value
Added(t) == tlog' = [tlog EXCEPT !.incs[Frame(t).k] = @ + Frame(t).arg]

\* inc, line 396: d[k] = the sum
inc_store(t) ==
    /\ Frame(t).pc = "inc_store"
    /\ dicts' = SetItem(dicts, Frame(t).d, Frame(t).k, Num(Frame(t).x))
    /\ Added(t) /\ Return(t)
    /\ UNCHANGED <<extvars, objs, ndicts, ctx_data, snaps, exc, last, merges, nops, phase, used,
                   now, ctx_time, ctx_interval, handlers, fl, calls, pending>>

\* inc, line 398: self.ctx.data
inc_KeyError_load(t) ==
    /\ Frame(t).pc = "inc_KeyError_load"
    /\ threads' = [threads EXCEPT ![t].pc = "inc_KeyError_store", ![t].d = Main]
    /\ UNCHANGED <<extvars, dicts, objs, ndicts, ctx_data, snaps, exc, last, merges, nops, phase, used,
                   now, ctx_time, ctx_interval, handlers, fl, calls, pending, tlog>>

\* inc, line 398: d[k] = value
inc_KeyError_store(t) ==
    /\ Frame(t).pc = "inc_KeyError_store"
    /\ dicts' = SetItem(dicts, Frame(t).d, Frame(t).k, Num(Frame(t).arg))
    /\ Added(t) /\ Return(t)
    /\ UNCHANGED <<extvars, objs, ndicts, ctx_data, snaps, exc, last, merges, nops, phase, used,
                   now, ctx_time, ctx_interval, handlers, fl, calls, pending>>

\* inc, line 400: self.ctx.data
inc_TypeError_load(t) ==
    /\ Frame(t).pc = "inc_TypeError_load"
    /\ threads' = [threads EXCEPT ![t].pc = "inc_TypeError_update", ![t].d = Main]
    /\ UNCHANGED <<extvars, dicts, objs, ndicts, ctx_data, snaps, exc, last, merges, nops, phase, used,
                   now, ctx_time, ctx_interval, handlers, fl, calls, pending, tlog>>

\* inc, line 400: d[k].update(value), inside the except clause: what it
\* raises leaves inc
inc_TypeError_update(t) ==
    /\ Frame(t).pc = "inc_TypeError_update"
    /\ LET e == dicts[Frame(t).d][Frame(t).k] IN
       CASE e.kind = "missing" -> Raise(t, "KeyError") /\ objs' = objs
         [] e.kind = "number" -> Raise(t, "AttributeError") /\ objs' = objs
         [] e.kind = "ref" -> /\ objs' = [objs EXCEPT ![e.v] = update(@, Frame(t).arg)]
                              /\ Return(t) /\ tlog' = tlog
    /\ UNCHANGED <<extvars, dicts, ndicts, ctx_data, snaps, exc, last, merges, nops, phase, used,
                   now, ctx_time, ctx_interval, handlers, fl, calls, pending>>

\* avg, line 407: self.ctx.data
avg_load(t, k, value) ==
    /\ Frame(t).pc = "idle" /\ nops < MaxOps
    /\ threads' = [threads EXCEPT ![t] = [pc |-> "avg_update", op |-> "avg", k |-> k,
                                         k0 |-> dicts[Main][k].kind, arg |-> value, d |-> Main, x |-> 0, swapped |-> FALSE]]
    /\ used' = [used EXCEPT ![k] = @ \cup {"avg"}]
    /\ nops' = nops + 1
    /\ UNCHANGED <<extvars, dicts, objs, ndicts, ctx_data, snaps, exc, last, merges, phase,
                   now, ctx_time, ctx_interval, handlers, fl, calls, pending, tlog>>

\* avg, line 407: d[k] (KeyError), then .update(value)
avg_update(t) ==
    /\ Frame(t).pc = "avg_update"
    /\ LET e == dicts[Frame(t).d][Frame(t).k] IN
       CASE e.kind = "missing" -> Goto(t, "avg_KeyError_load") /\ objs' = objs /\ tlog' = tlog
         [] e.kind = "number" -> Raise(t, "AttributeError") /\ objs' = objs
         [] e.kind = "ref" -> /\ objs' = [objs EXCEPT ![e.v] = update(@, Frame(t).arg)]
                              /\ Return(t) /\ tlog' = tlog
    /\ UNCHANGED <<extvars, dicts, ndicts, ctx_data, snaps, exc, last, merges, nops, phase, used,
                   now, ctx_time, ctx_interval, handlers, fl, calls, pending>>

\* avg, line 409: GaugeAvg(value), then self.ctx.data
avg_KeyError_load(t) ==
    /\ Frame(t).pc = "avg_KeyError_load" /\ CanAlloc(objs)
    /\ LET o == NewObj(objs) IN
       /\ objs' = [objs EXCEPT ![o] = GaugeAvg(Frame(t).arg)]
       /\ threads' = [threads EXCEPT ![t].pc = "avg_KeyError_store", ![t].d = Main, ![t].x = o]
    /\ UNCHANGED <<extvars, dicts, ndicts, ctx_data, snaps, exc, last, merges, nops, phase, used,
                   now, ctx_time, ctx_interval, handlers, fl, calls, pending, tlog>>

\* avg, line 409: d[k] = the gauge
avg_KeyError_store(t) ==
    /\ Frame(t).pc = "avg_KeyError_store"
    /\ dicts' = SetItem(dicts, Frame(t).d, Frame(t).k, Ref(Frame(t).x))
    /\ Return(t)
    /\ UNCHANGED <<extvars, objs, ndicts, ctx_data, snaps, exc, last, merges, nops, phase, used,
                   now, ctx_time, ctx_interval, handlers, fl, calls, pending, tlog>>

\* process_stats(force = True): the gate is passed, ctx.time = now, then
\* reset_stats line 434: cur_data = ctx.data
reset_stats_load(t) ==
    /\ Frame(t).pc = "idle" /\ nops < MaxOps
    /\ ndicts + Cardinality({u \in Threads : threads[u].pc = "reset_stats_store"}) < MaxDicts
    /\ ~gated(now, ctx_time, ctx_interval, TRUE)
    /\ ctx_time' = now
    /\ threads' = [threads EXCEPT ![t] = [pc |-> "reset_stats_store", op |-> "process_stats",
                                         k |-> "", k0 |-> "", arg |-> 0, d |-> Main, x |-> 0,
                                         swapped |-> FALSE]]
    /\ nops' = nops + 1
    /\ UNCHANGED <<extvars, dicts, objs, ndicts, ctx_data, snaps, exc, last, merges, phase, used,
                   now, ctx_interval, handlers, fl, calls, pending, tlog>>

\* reset_stats lines 435-436: ctx.data = {}; return cur_data
reset_stats_store(t) ==
    /\ Frame(t).pc = "reset_stats_store"
    /\ ctx_data' = [ctx_data EXCEPT !["main"] = ndicts + 1]
    /\ ndicts' = ndicts + 1
    /\ snaps' = Append(snaps, Frame(t).d)
    /\ tlog' = [tlog EXCEPT !.returned = Append(@, Frame(t).d)]
    /\ threads' = [u \in Threads |->
                     IF u = t THEN [threads[u] EXCEPT !.pc = "handler_process"]
                     ELSE IF threads[u].pc = "idle" THEN threads[u]
                     ELSE [threads[u] EXCEPT !.swapped = TRUE]]
    /\ UNCHANGED <<extvars, dicts, objs, exc, last, merges, nops, phase, used,
                   now, ctx_time, ctx_interval, handlers, fl, calls, pending>>

\* the number a handler reads under key k of the map it is handed
Handed(D, k) == IF dicts[D][k].kind = "number" THEN dicts[D][k].v ELSE 0

\* process_stats lines 448-450: handler.process(data) of the one handler
handler_process(t) ==
    /\ Frame(t).pc = "handler_process"
    /\ tlog' = [tlog EXCEPT !.delivered = [k \in Keys |-> @[k] + Handed(Frame(t).d, k)]]
    /\ Return(t)
    /\ UNCHANGED <<extvars, dicts, objs, ndicts, ctx_data, snaps, exc, last, merges, nops, phase, used,
                   now, ctx_time, ctx_interval, handlers, fl, calls, pending>>

NextThreads ==
    \E t \in Threads :
        \/ \E k \in Keys : inc_load(t, k, 1)
        \/ inc_subscr(t)
        \/ inc_store(t)
        \/ inc_KeyError_load(t)
        \/ inc_KeyError_store(t)
        \/ inc_TypeError_load(t)
        \/ inc_TypeError_update(t)
        \/ \E k \in Keys : avg_load(t, k, 1)
        \/ avg_update(t)
        \/ avg_KeyError_load(t)
        \/ avg_KeyError_store(t)
        \/ reset_stats_load(t)
        \/ reset_stats_store(t)
        \/ handler_process(t)

SpecThreads == InitThreads /\ [][NextThreads]_vars

\* ---------------------------------------------------------------- C5, C6, C7
Quiescent == \A t \in Threads : threads[t].pc = "idle"

\* C5: once every call has returned, for a key updated by inc only, the
\* numbers handed to the handler in all snapshots plus the number in the live
\* map add up to the sum of the values of the inc calls.
C5_NoLostUpdates ==
    Quiescent =>
        \A k \in Keys :
            used[k] = {"inc"} => tlog.delivered[k] + Handed(Main, k) = tlog.incs[k]

\* C6: no two reset_stats calls return the same map.
C6_ResetReturnsDistinctMaps ==
    \A i, j \in 1..Len(tlog.returned) : i # j => tlog.returned[i] # tlog.returned[j]

\* C7: an inc or avg call during which reset_stats replaced the map does not
\* raise to its caller; stated for the claim's case of an inc on a key that
\* holds a Metric when the call begins.
C7_NoRaiseDuringFlush ==
    \A r \in tlog.raised : ~(r.swapped /\ r.op = "inc" /\ r.k0 = "ref")

\* ============================================================= SpecCollectors
\* StatsContext objects over the contexts: construction, get_collector, set.
Names == {<<>>, <<"x">>}
Delims == {<<".">>, <<"/">>}
SetNames == {<<"k">>}

\* StatsContext.__init__(name, delim, context)
StatsContext_init(name, delim, context) ==
    [prefix |-> IF name # <<>> THEN name \o delim ELSE <<>>, delim |-> delim, ctx |-> context]

\* StatsContext.get_collector(name)
get_collector_bare_name(self, name) == StatsContext_init(name, self.delim, self.ctx)
get_collector(self, name) == StatsContext_init(self.prefix \o name, self.delim, self.ctx)

\* StatsContext.set(name, value) on the map data: data[prefix + name] = value
StatsContext_set(self, data, name, value) ==
    {e \in data : e.k # self.prefix \o name} \cup {[k |-> self.prefix \o name, v |-> value]}

Collector(c, depth) == [prefix |-> c.prefix, delim |-> c.delim, ctx |-> c.ctx, depth |-> depth]
CollUnchanged ==
    UNCHANGED <<dicts, objs, ndicts, ctx_data, snaps, exc, last, merges, nops, phase, used,
                now, ctx_time, ctx_interval, handlers, fl, calls, pending, threads, tlog,
                gau, wire>>

\* cur = StatsContext(name, delim, context), the program's root collector
NewCollector(name, delim, context) ==
    /\ coll.cur = NoCollector
    /\ LET c == Collector(StatsContext_init(name, delim, context), 0) IN
       coll' = [coll EXCEPT !.cur = c,
                            !.last = [op |-> "StatsContext", p |-> NoCollector, n |-> name,
                                      c |-> c, k |-> <<>>, v |-> 0]]
    /\ CollUnchanged /\ UNCHANGED <<hnd, lk, cfg, agg>>

\* cur = cur.get_collector(n)
GetCollector(n) ==
    /\ coll.cur # NoCollector /\ coll.cur.depth < MaxDepth
    /\ LET c == Collector(get_collector(coll.cur, n), coll.cur.depth + 1) IN
       coll' = [coll EXCEPT !.cur = c,
                            !.last = [op |-> "get_collector", p |-> coll.cur, n |-> n, c |-> c,
                                      k |-> <<>>, v |-> 0]]
    /\ CollUnchanged /\ UNCHANGED <<hnd, lk, cfg, agg>>

\* cur.get_collector(n).set(k, v)
ChildSet(n, k, v) ==
    /\ coll.cur # NoCollector /\ coll.cur.depth < MaxDepth /\ coll.nsets < MaxSets
    /\ LET c == Collector(get_collector(coll.cur, n), coll.cur.depth + 1) IN
       coll' = [coll EXCEPT !.data[c.ctx] = StatsContext_set(c, @, k, v),
                            !.nsets = @ + 1,
                            !.last = [op |-> "set", p |-> coll.cur, n |-> n, c |-> c,
                                      k |-> k, v |-> v]]
    /\ CollUnchanged /\ UNCHANGED <<hnd, lk, cfg, agg>>

NextCollectors ==
    \/ \E name \in Names, delim \in Delims, context \in Contexts : NewCollector(name, delim, context)
    \/ \E n \in Names : GetCollector(n)
    \/ \E n \in Names, k \in SetNames, v \in Vals : ChildSet(n, k, v)

SpecCollectors == Init /\ [][NextCollectors]_vars

\* ----------------------------------------------------------------------- C13
CollectorStep(op) == coll' # coll /\ coll'.last.op = op
SharesContext(c, q) == c.ctx = q.ctx /\ c.delim = q.delim

\* C13 as stated: the child of p named n has prefix p.prefix + n + delim for
\* any p and n, and set(k, v) through it stores v under p.prefix + n + delim + k.
C13_AnyNameStep ==
    LET l == coll'.last IN
    /\ (CollectorStep("get_collector") \/ CollectorStep("set")) =>
          SharesContext(l.c, l.p) /\ l.c.prefix = l.p.prefix \o l.n \o l.p.delim
    /\ CollectorStep("set") =>
          [k |-> l.p.prefix \o l.n \o l.p.delim \o l.k, v |-> l.v] \in coll'.data[l.p.ctx]
    /\ CollectorStep("get_collector") => coll'.data = coll.data
C13_PrefixForAnyName == [][C13_AnyNameStep]_vars

\* C13: p.get_collector(n) shares p's context and delimiter; its prefix is
\* p.prefix + n + delim when p.prefix + n is not empty and is empty otherwise;
\* set(k, v) through it stores v under its prefix + k, that is under
\* p.prefix + n + delim + k when p.prefix + n is not empty and under k
\* otherwise; get_collector does not change the context's data.
C13_NonEmptyNameStep ==
    LET l == coll'.last
        name == l.p.prefix \o l.n
        prefix == IF name # <<>> THEN name \o l.p.delim ELSE <<>>
    IN
    /\ (CollectorStep("get_collector") \/ CollectorStep("set")) =>
          SharesContext(l.c, l.p) /\ l.c.prefix = prefix
    /\ CollectorStep("set") =>
          /\ [k |-> prefix \o l.k, v |-> l.v] \in coll'.data[l.p.ctx]
          /\ \A e \in coll'.data[l.p.ctx] : e.k = prefix \o l.k => e.v = l.v
          /\ \A c \in Contexts \ {l.p.ctx} : coll'.data[c] = coll.data[c]
    /\ CollectorStep("get_collector") => coll'.data = coll.data
C13_CollectorPrefixing == [][C13_NonEmptyNameStep]_vars

C13_Witness ==
    /\ coll.last.op = "set"
    /\ coll.last.p.depth = 1 /\ coll.last.p.prefix # <<>> /\ coll.last.n # <<>>
    /\ [k |-> coll.last.p.prefix \o coll.last.n \o coll.last.p.delim \o coll.last.k,
        v |-> coll.last.v] \in coll.data[coll.last.p.ctx]
    /\ coll.nsets = MaxSets

\* ================================================================= SpecSocket
\* One SocketHandler (tcp) or DatagramHandler (udp) and its peer: connects and
\* sends succeed or fail with socket.error as the peer decides.
IO == {"ok", "error"}
Min(a, b) == IF a < b THEN a ELSE b

\* SocketHandler.create_socket at time h.now; conn is what make_socket does
create_socket_uncapped(h, conn) ==
    LET attempt == IF ~h.retry_set THEN TRUE ELSE h.now >= h.retry_time IN
    IF ~attempt THEN h
    ELSE IF conn = "ok"
    THEN [h EXCEPT !.sock = "open", !.retry_set = FALSE, !.fails = 0,
                   !.last.attempts = @ + 1]
    ELSE LET period == IF ~h.retry_set THEN retry_start
                       ELSE h.retry_period * retry_factor
         IN [h EXCEPT !.retry_period = period, !.retry_set = TRUE,
                      !.retry_time = h.now + period,
                      !.fails = @ + 1, !.fail_at = h.now, !.last.attempts = @ + 1]

create_socket_always_attempt(h, conn) ==
    LET attempt == TRUE IN
    IF ~attempt THEN h
    ELSE IF conn = "ok"
    THEN [h EXCEPT !.sock = "open", !.retry_set = FALSE, !.fails = 0,
                   !.last.attempts = @ + 1]
    ELSE LET period == IF ~h.retry_set THEN retry_start
                       ELSE IF h.retry_period * retry_factor > retry_max THEN retry_max
                       ELSE h.retry_period * retry_factor
         IN [h EXCEPT !.retry_period = period, !.retry_set = TRUE,
                      !.retry_time = h.now + period,
                      !.fails = @ + 1, !.fail_at = h.now, !.last.attempts = @ + 1]

create_socket_keep_retry_time(h, conn) ==
    LET attempt == IF ~h.retry_set THEN TRUE ELSE h.now >= h.retry_time IN
    IF ~attempt THEN h
    ELSE IF conn = "ok"
    THEN [h EXCEPT !.sock = "open", !.fails = 0, !.last.attempts = @ + 1]
    ELSE LET period == IF ~h.retry_set THEN retry_start
                       ELSE IF h.retry_period * retry_factor > retry_max THEN retry_max
                       ELSE h.retry_period * retry_factor
         IN [h EXCEPT !.retry_period = period, !.retry_set = TRUE,
                      !.retry_time = h.now + period,
                      !.fails = @ + 1, !.fail_at = h.now, !.last.attempts = @ + 1]

create_socket(h, conn) ==
    LET attempt == IF ~h.retry_set THEN TRUE ELSE h.now >= h.retry_time IN
    IF ~attempt THEN h
    ELSE IF conn = "ok"
    THEN [h EXCEPT !.sock = "open", !.retry_set = FALSE, !.fails = 0,
                   !.last.attempts = @ + 1]
    ELSE LET period == IF ~h.retry_set THEN retry_start
                       ELSE IF h.retry_period * retry_factor > retry_max THEN retry_max
                       ELSE h.retry_period * retry_factor
         IN [h EXCEPT !.retry_period = period, !.retry_set = TRUE,
                      !.retry_time = h.now + period,
                      !.fails = @ + 1, !.fail_at = h.now, !.last.attempts = @ + 1]

\* SocketHandler.send: the handler after the call and the exception it raises
SocketHandler_send_keep_socket(h, conn, snd) ==
    LET h1 == IF h.sock = "none" THEN create_socket(h, conn) ELSE h IN
    IF h1.sock = "open"
    THEN IF snd = "ok" THEN [h |-> [h1 EXCEPT !.last.sent = @ + 1], exc |-> "none"]
         ELSE [h |-> [h1 EXCEPT !.last.send_error = TRUE], exc |-> "none"]
    ELSE [h |-> h1, exc |-> "none"]
SocketHandler_send(h, conn, snd) ==
    LET h1 == IF h.sock = "none" THEN create_socket(h, conn) ELSE h IN
    IF h1.sock = "open"
    THEN IF snd = "ok" THEN [h |-> [h1 EXCEPT !.last.sent = @ + 1], exc |-> "none"]
         ELSE [h |-> [h1 EXCEPT !.sock = "none", !.last.send_error = TRUE], exc |-> "none"]
    ELSE [h |-> h1, exc |-> "none"]

\* DatagramHandler.send: self.sock.sendto with no try, and on None
DatagramHandler_send(h, conn, snd) ==
    LET h1 == IF h.sock = "none" THEN create_socket(h, conn) ELSE h IN
    IF h1.sock = "none" THEN [h |-> h1, exc |-> "AttributeError"]
    ELSE IF snd = "ok" THEN [h |-> [h1 EXCEPT !.last.sent = @ + 1], exc |-> "none"]
    ELSE [h |-> [h1 EXCEPT !.last.send_error = TRUE], exc |-> "socket.error"]

send(h, conn, snd) ==
    IF h.kind = "tcp" THEN SocketHandler_send(h, conn, snd) ELSE DatagramHandler_send(h, conn, snd)

\* SocketHandler.emit lines 284-291: what leaves the try statement when the
\* loop raised e (handle_error does nothing: close_on_error is 0)
emit_no_except(e) == e
emit_except(e) == IF e \in ControlSignals THEN e ELSE "none"

\* SocketHandler.emit: make_pickle and one send per entry; the loop ends at
\* the first exception, raised by make_pickle or by send
RECURSIVE emit_loop(_, _)
emit_loop(h, outs) ==
    IF outs = <<>> THEN [h |-> h, exc |-> "none"]
    ELSE IF Head(outs).enc = "error"
         THEN [h |-> [h EXCEPT !.last.enc_error = TRUE], exc |-> "Exception"]
    ELSE LET r == send([h EXCEPT !.last.tried = @ + 1], Head(outs).conn, Head(outs).snd)
         IN IF r.exc # "none" THEN r ELSE emit_loop(r.h, Tail(outs))
emit(h, outs) ==
    LET r == emit_loop(h, outs) IN [h |-> r.h, exc |-> emit_except(r.exc)]

SockUnchanged ==
    UNCHANGED <<dicts, objs, ndicts, ctx_data, snaps, exc, last, merges, nops, phase, used,
                now, ctx_time, ctx_interval, handlers, fl, calls, pending, threads, tlog,
                gau, wire>>

\* what the peer does at each entry of a snapshot: one connect outcome and one
\* send outcome per entry (no send follows a failed connect), after the
\* entry was encoded or was not (no connect follows a failed make_pickle)
Peer == {p \in [enc : IO, conn : IO, snd : IO] :
            /\ p.conn = "error" => p.snd = "ok"
            /\ p.enc = "error" => p.conn = "ok" /\ p.snd = "ok"}
PeerRuns == UNION {[1..n -> Peer] : n \in 0..MaxMetrics}

\* SocketHandler.__init__ / DatagramHandler.__init__
NewHandler(kind) ==
    /\ hnd.kind = "none"
    /\ hnd' = [NoHandler EXCEPT !.kind = kind]
    /\ SockUnchanged /\ UNCHANGED <<coll, lk, cfg, agg>>

\* handler.process(data) for a snapshot of Len(outs) entries
SocketProcess(outs) ==
    /\ hnd.kind # "none"
    /\ LET h0 == [hnd EXCEPT !.last = [n |-> Len(outs), tried |-> 0, enc_error |-> FALSE,
                                       attempts |-> 0, sent |-> 0,
                                       had_sock |-> hnd.sock = "open",
                                       send_error |-> FALSE, exc |-> "none"]]
           r == emit(h0, outs)
       IN hnd' = [r.h EXCEPT !.last.exc = Handler_process(r.exc)]
    /\ SockUnchanged /\ UNCHANGED <<coll, lk, cfg, agg>>

\* the clock, observed while the handler waits for its retry time
SocketTick ==
    /\ hnd.retry_set /\ hnd.now < hnd.retry_time /\ hnd.now < MaxClock
    /\ hnd' = [hnd EXCEPT !.now = @ + 1]
    /\ SockUnchanged /\ UNCHANGED <<coll, lk, cfg, agg>>

NextSocket ==
    \/ \E kind \in {"tcp", "udp"} : NewHandler(kind)
    \/ \E outs \in PeerRuns : SocketProcess(outs)
    \/ SocketTick

SpecSocket == Init /\ [][NextSocket]_vars

\* ---------------------------------------------------------------------- C14
RECURSIVE Pow(_, _)
Pow(b, n) == IF n = 0 THEN 1 ELSE b * Pow(b, n - 1)

\* C14: after n >= 1 consecutive failed connects retry_period is
\* retry_start * retry_factor^(n-1) capped at retry_max, and retry_time is the
\* time of the last attempt plus that period.
C14_ReconnectBackoff ==
    hnd.fails >= 1 =>
        /\ hnd.retry_set
        /\ hnd.retry_period = Min(retry_start * Pow(retry_factor, hnd.fails - 1), retry_max)
        /\ hnd.retry_time = hnd.fail_at + hnd.retry_period

C14_Witness ==
    /\ hnd.kind = "tcp" /\ hnd.fails = 7
    /\ hnd.retry_period = retry_max /\ hnd.retry_time = hnd.now + retry_max

\* ----------------------------------------------------------- C15, C16, C17
\* a handler.process(data) step of the stream handler, and of either handler
ProcessStep == hnd' # hnd /\ hnd.kind # "none" /\ hnd'.now = hnd.now
TcpProcessStep == ProcessStep /\ hnd.kind = "tcp"
\* the peer accepts the connection and closes it: the connect succeeds and
\* the send of the one entry fails
AcceptThenClose ==
    /\ TcpProcessStep /\ hnd.sock = "none" /\ ~hnd.retry_set
    /\ hnd'.last.n = 1 /\ hnd'.last.attempts = 1 /\ hnd'.last.send_error

\* C15 as stated: the process_stats that meets accept-then-close sets
\* retry_time to now + 1.0, so that a process_stats before that time does not
\* attempt a reconnect.
C15_BackoffAfterCloseStep ==
    AcceptThenClose => hnd'.retry_set /\ hnd'.retry_time = hnd'.now + retry_start
C15_AcceptThenCloseBacksOff == [][C15_BackoffAfterCloseStep]_vars

\* C15: the process_stats that meets accept-then-close fails silently and
\* leaves sock none and retry_time none; from there a process_stats with data
\* attempts a reconnect at once, whatever the time. retry_time is set only by
\* a failed connect: while now < retry_time a process_stats drops its data
\* without a connect attempt, and from retry_time on one with data attempts
\* a reconnect.
C15_AcceptThenCloseStep ==
    /\ AcceptThenClose =>
          hnd'.sock = "none" /\ ~hnd'.retry_set /\ hnd'.last.exc = "none"
    /\ (TcpProcessStep /\ hnd.sock = "none" /\ ~hnd.retry_set /\ hnd'.last.tried >= 1) =>
          hnd'.last.attempts >= 1
    /\ (TcpProcessStep /\ hnd.sock = "none" /\ hnd.retry_set /\ hnd.now < hnd.retry_time) =>
          hnd'.last.attempts = 0 /\ hnd'.last.sent = 0 /\ hnd'.sock = "none"
    /\ (TcpProcessStep /\ hnd.sock = "none" /\ hnd.retry_set /\ hnd.now >= hnd.retry_time
          /\ hnd'.last.tried >= 1) => hnd'.last.attempts >= 1
    /\ (TcpProcessStep /\ hnd'.retry_set /\ hnd'.retry_time # hnd.retry_time) =>
          hnd'.fails >= 1 /\ hnd'.fail_at = hnd'.now /\ hnd'.sock = "none"
C15_AcceptThenClose == [][C15_AcceptThenCloseStep]_vars

C15_Witness ==
    /\ hnd.kind = "tcp" /\ hnd.last.n = 1 /\ ~hnd.last.had_sock
    /\ hnd.last.attempts = 1 /\ hnd.last.send_error
    /\ hnd.sock = "none" /\ ~hnd.retry_set /\ hnd.now > 0

\* C16: a send error on a connected stream socket leaves sock none (with no
\* retry time pending), and the send after it attempts a reconnect.
C16_SendErrorStep ==
    /\ (TcpProcessStep /\ hnd'.last.send_error /\ hnd'.last.attempts = 0) =>
          hnd'.sock = "none" /\ ~hnd'.retry_set
    /\ (TcpProcessStep /\ hnd'.last.send_error /\ hnd'.last.had_sock /\ hnd'.last.sent = 0
          /\ hnd'.last.tried > 1) => hnd'.last.attempts >= 1
    /\ (TcpProcessStep /\ hnd.last.send_error /\ hnd.sock = "none" /\ ~hnd.retry_set
          /\ hnd'.last.tried >= 1) => hnd'.last.attempts >= 1
C16_SendErrorRecovery == [][C16_SendErrorStep]_vars

C16_Witness ==
    /\ hnd.kind = "tcp" /\ hnd.last.n = MaxMetrics /\ hnd.last.had_sock
    /\ hnd.last.send_error /\ hnd.last.attempts = 1 /\ hnd.last.sent = 1
    /\ hnd.sock = "open"

\* C17: no handler.process call of the stream or of the datagram handler
\* raises, whatever connects and sends fail.
C17_TransientErrorsAbsorbed == hnd.last.exc = "none"

C17_Witness ==
    /\ hnd.kind = "udp" /\ hnd.last.n = MaxMetrics
    /\ hnd.retry_set /\ hnd.now < hnd.retry_time /\ hnd.fails > 1
    /\ hnd.last.attempts = 0 /\ hnd.last.sent = 0 /\ hnd.sock = "none"

\* ------------------------------------------------------------ handler lock
\* Handler.process and SocketHandler.close of one handler, called from two
\* threads; emit may call process or close of the same handler again.
MaxNest == 2            \* process/close calls nested in one thread

Ops == {"process", "close"}
EmitOutcomes == Outcomes
Bodies == {"emit", "close_body"}

\* threading.RLock: the number of times thread t holds the lock
held(l, t) == IF l.owner = t THEN l.count ELSE 0
\* RLock.acquire blocks while another thread owns the lock
can_acquire(l, t) == l.owner = "" \/ l.owner = t
acquire(l, t) == [l EXCEPT !.owner = t, !.count = @ + 1]
release(l, t) ==
    [l EXCEPT !.count = @ - 1, !.owner = IF l.count = 1 THEN "" ELSE @]

\* try: ... finally: self.release()
release_on_return_only(l, t, e) == IF e = "none" THEN release(l, t) ELSE l
process_finally(l, t, e) == release(l, t)

Top(t) == lk.stack[t][Len(lk.stack[t])]
At(t, pc) == lk.stack[t] # <<>> /\ Top(t).pc = pc
SetTop(t, f) == [lk EXCEPT !.stack[t][Len(lk.stack[t])] = f]
InBody(t) == \E i \in 1..Len(lk.stack[t]) : lk.stack[t][i].pc \in Bodies

LockUnchanged == SockUnchanged /\ UNCHANGED <<coll, hnd, cfg, agg>>

\* thread t calls handler.process(data) or handler.close(), from outside or
\* from inside emit
LockCall(t, op, isdict) ==
    /\ Len(lk.stack[t]) < MaxNest
    /\ IF lk.stack[t] = <<>> THEN TRUE ELSE Top(t).pc = "emit"
    /\ op = "close" => isdict
    /\ lk' = [lk EXCEPT !.stack[t] = Append(@, [op |-> op, pc |-> "acquire", isdict |-> isdict,
                                                held0 |-> held(lk, t), exc |-> "none"])]
    /\ LockUnchanged

\* self.acquire()
LockAcquire(t) ==
    /\ At(t, "acquire")
    /\ can_acquire(lk, t)
    /\ lk' = [acquire(lk, t) EXCEPT !.stack[t][Len(lk.stack[t])].pc = "try"]
    /\ LockUnchanged

\* assert isinstance(data, dict), then into emit; close goes to its body
LockTry(t) ==
    /\ At(t, "try")
    /\ lk' = SetTop(t, IF Top(t).op = "close" THEN [Top(t) EXCEPT !.pc = "close_body"]
                       ELSE IF Top(t).isdict THEN [Top(t) EXCEPT !.pc = "emit"]
                       ELSE [Top(t) EXCEPT !.pc = "finally", !.exc = "AssertionError"])
    /\ LockUnchanged

\* emit(data) returns or raises; the close body returns
LockBodyEnds(t, e) ==
    /\ lk.stack[t] # <<>> /\ Top(t).pc \in Bodies
    /\ Top(t).pc = "close_body" => e = "none"
    /\ lk' = SetTop(t, [Top(t) EXCEPT !.pc = "finally", !.exc = e])
    /\ LockUnchanged

\* finally: self.release(); the call ends
LockRelease(t) ==
    /\ At(t, "finally")
    /\ LET l == process_finally(lk, t, Top(t).exc)
       IN lk' = [l EXCEPT !.stack[t] = SubSeq(@, 1, Len(@) - 1),
                          !.last = [t |-> t, op |-> Top(t).op, held0 |-> Top(t).held0,
                                    held1 |-> held(l, t), exc |-> Top(t).exc]]
    /\ LockUnchanged

NextLock ==
    \/ \E t \in Threads, op \in Ops, isdict \in BOOLEAN : LockCall(t, op, isdict)
    \/ \E t \in Threads : LockAcquire(t)
    \/ \E t \in Threads : LockTry(t)
    \/ \E t \in Threads, e \in EmitOutcomes : LockBodyEnds(t, e)
    \/ \E t \in Threads : LockRelease(t)

SpecLock == Init /\ [][NextLock]_vars

\* ---------------------------------------------------------------------- C18
\* C18: a process (or close) call that ends, by return, by the failed
\* isinstance assertion or by an exception from emit, leaves the calling
\* thread's hold count of the handler's lock what it was when the call began;
\* the lock is held by the thread that is in an emit or close body, and no
\* two threads are in emit/close bodies of the same handler at the same time.
C18_HandlerMutex ==
    /\ lk.last.held1 = lk.last.held0
    /\ \A t \in Threads : InBody(t) => lk.owner = t /\ lk.count >= 1
    /\ \A t, u \in Threads : (InBody(t) /\ InBody(u)) => t = u
    /\ \A t \in Threads : lk.stack[t] = <<>> => held(lk, t) = 0

C18_Witness ==
    /\ lk.last.op = "process" /\ lk.last.exc = "AssertionError"
    /\ lk.last.held0 = 1 /\ lk.last.held1 = 1 /\ lk.last.t = "t1"
    /\ InBody("t1") /\ At("t2", "acquire")

\* ------------------------------------------------------- configure_handler
\* urlparse.urlparse(backend).scheme for a URL (backend.find(':') > 0), or the
\* bare backend name
scheme_of(backend) == backend[1]

\* register_handler(scheme, cls)
register_handler(c, sch, cls) == [c EXCEPT !.registry[sch] = cls]

\* configure_handler(backend, name): hid = name or backend; the handler is
\* built by the class registered for the scheme, or is SkyLogHandler('')
configure_handler(c, backend, name) ==
    LET hid == IF name # "" THEN <<name>> ELSE backend
        known == c.registry[scheme_of(backend)] # ""
        h == IF known THEN c.registry[scheme_of(backend)] ELSE "SkyLogHandler"
    IN [c EXCEPT !.handlers[hid] = h,
                 !.last = [op |-> "configure_handler", hid |-> hid, unknown |-> ~known,
                           warned |-> ~known, stored |-> TRUE, exc |-> "none"]]

ConfigUnchanged == SockUnchanged /\ UNCHANGED <<coll, hnd, lk, agg>>

RegisterHandler(sch, cls) ==
    /\ cfg' = [register_handler(cfg, sch, cls) EXCEPT !.last.op = "register_handler"]
    /\ ConfigUnchanged

ConfigureHandlerCall(backend, name) ==
    /\ cfg' = configure_handler(cfg, backend, name)
    /\ ConfigUnchanged

NextConfig ==
    \/ \E sch \in Schemes, cls \in {"SkyLogHandler", "UdpTNetStringsHandler"} :
          RegisterHandler(sch, cls)
    \/ \E backend \in Backends, name \in HandlerNames : ConfigureHandlerCall(backend, name)

SpecConfig == Init /\ [][NextConfig]_vars

\* ---------------------------------------------------------------------- C19
\* C19: a configure_handler call whose backend names a scheme that is not
\* registered ends with an error signalled to the caller and with nothing
\* stored in the context's handler map.
C19_UnknownSchemeIsError ==
    (cfg.last.op = "configure_handler" /\ cfg.last.unknown) =>
        cfg.last.exc # "none" /\ ~cfg.last.stored

\* ------------------------------------------------- stats_metrics aggregates
\* Counter and the count/accumulator gauges of stats_metrics.py, each fed a
\* sample sequence, and one merged into the other.
MaxLenA == 1            \* samples given to the receiver
MaxLenB == 2            \* samples given to the merged-in aggregate
MaxSample == 3          \* largest sample
MinSample == -1         \* smallest sample
DoubleBits == 53        \* significand of a float (IEEE 754 binary64)

Classes == {"Counter", "GaugeAMean", "GaugeGMean", "GaugeHMean", "GaugeQMean"}
Positive == {"GaugeGMean", "GaugeHMean"}
SampleVals == MinSample..MaxSample

\* A float is its exponent e and its significand m, DoubleBits bits with the
\* leading one first: the value is m[1] * 2^e + m[2] * 2^(e-1) + ...
\* Zero stands for 0 (the int 0 the accumulator starts from).
Zero == [e |-> 0, m |-> <<>>]
Zeros(n) == IF n = 0 THEN <<>> ELSE [i \in 1..n |-> 0]

\* the sum of two bit strings of one length and a carry, one bit longer; the
\* low halves are added first and their carry goes into the high halves
RECURSIVE AddBits(_, _, _)
AddBits(x, y, c) ==
    IF Len(x) = 0 THEN <<c>>
    ELSE IF Len(x) = 1 THEN <<(x[1] + y[1] + c) \div 2, (x[1] + y[1] + c) % 2>>
    ELSE LET half == Len(x) \div 2
             low == AddBits(SubSeq(x, half + 1, Len(x)), SubSeq(y, half + 1, Len(y)), c)
         IN (IF low[1] = 1 THEN AddBits(SubSeq(x, 1, half), SubSeq(y, 1, half), 1)
             ELSE AddBits(SubSeq(x, 1, half), SubSeq(y, 1, half), 0)) \o Tail(low)

\* round to nearest, ties to even: bits starts with a one and holds at least
\* DoubleBits bits
float_round(bits, e) ==
    LET keep == SubSeq(bits, 1, DoubleBits)
        guard == IF Len(bits) > DoubleBits THEN bits[DoubleBits + 1] ELSE 0
        sticky == \E i \in (DoubleBits + 2)..Len(bits) : bits[i] = 1
        up == guard = 1 /\ (sticky \/ keep[DoubleBits] = 1)
        r == AddBits(keep, Append(Zeros(DoubleBits - 1), 1), 0)
    IN IF ~up THEN [e |-> e, m |-> keep]
       ELSE IF r[1] = 1 THEN [e |-> e + 1, m |-> SubSeq(r, 1, DoubleBits)]
       ELSE [e |-> e, m |-> Tail(r)]

\* float.__add__ for floats that are not negative
float_add(x, y) ==
    IF x = Zero THEN y
    ELSE IF y = Zero THEN x
    ELSE LET hi == IF x.e >= y.e THEN x ELSE y
             lo == IF x.e >= y.e THEN y ELSE x
             d == hi.e - lo.e
             t == AddBits(hi.m \o Zeros(d), Zeros(d) \o lo.m, 0)
         IN IF t[1] = 1 THEN float_round(t, hi.e + 1) ELSE float_round(Tail(t), hi.e)

\* 1./value for an int value > 0: long division, then rounding. With the
\* dividend r scaled into [value, 2 * value), the k-th quotient bit compares
\* 2 * ((2^(k-1) * r) mod value) with value.
RECURSIVE div_norm(_, _, _)
div_norm(r, v, e) == IF r >= v THEN [r |-> r, e |-> e] ELSE div_norm(2 * r, v, e - 1)
RECURSIVE PowMod(_, _)
PowMod(k, v) ==
    IF k = 0 THEN 1 % v
    ELSE (PowMod(k \div 2, v) * PowMod(k \div 2, v) * (IF k % 2 = 1 THEN 2 ELSE 1)) % v
div_rem(r, v, k) == IF k = 0 THEN r ELSE 2 * ((PowMod(k - 1, v) * r) % v)
\* n quotient bits and a last bit that tells whether a remainder is left
div_bits(r, v, n) ==
    [k \in 1..(n + 1) |-> IF k <= n THEN (IF div_rem(r, v, k - 1) >= v THEN 1 ELSE 0)
                          ELSE (IF div_rem(r, v, n) # 0 THEN 1 ELSE 0)]
float_recip(value) ==
    LET n == div_norm(1, value, 0)
    IN float_round(div_bits(n.r, value, DoubleBits + 1), n.e)

\* __init__(value = None)
metrics_init(cls) ==
    [cls |-> cls, count |-> 0, value |-> 0,
     temp |-> IF cls = "GaugeGMean" THEN 1 ELSE IF cls = "GaugeHMean" THEN Zero ELSE 0]

\* update(value); GaugeGMean and GaugeHMean assert value > 0 first
metrics_update(m, value) ==
    IF m.cls = "Counter" THEN [m |-> [m EXCEPT !.value = @ + value], exc |-> "none"]
    ELSE IF m.cls \in Positive /\ ~(value > 0) THEN [m |-> m, exc |-> "AssertionError"]
    ELSE [m |-> [m EXCEPT !.count = @ + 1,
                          !.temp = CASE m.cls = "GaugeAMean" -> @ + value
                                     [] m.cls = "GaugeGMean" -> @ * value
                                     [] m.cls = "GaugeHMean" -> float_add(@, float_recip(value))
                                     [] m.cls = "GaugeQMean" -> @ + value * value],
          exc |-> "none"]

\* merge(that)
metrics_merge(self, that) ==
    IF self.cls = "Counter" THEN metrics_update(self, that.value).m
    ELSE [self EXCEPT !.count = @ + that.count,
                      !.temp = CASE self.cls = "GaugeGMean" -> @ * that.temp
                                 [] self.cls = "GaugeHMean" -> float_add(@, that.temp)
                                 [] OTHER -> @ + that.temp]

\* the aggregate of a sample sequence: a new metric updated with each sample
RECURSIVE aggregate(_, _)
aggregate(cls, samples) ==
    IF samples = <<>> THEN metrics_init(cls)
    ELSE metrics_update(aggregate(cls, SubSeq(samples, 1, Len(samples) - 1)),
                        samples[Len(samples)]).m

AggUnchanged == SockUnchanged /\ UNCHANGED <<coll, hnd, lk, cfg>>

\* a = cls(); b = cls()
NewAggregates(cls) ==
    /\ agg.cls = "none"
    /\ agg' = [NoAggregates EXCEPT !.cls = cls, !.a = metrics_init(cls), !.b = metrics_init(cls)]
    /\ AggUnchanged

\* a.update(v)
UpdateA(v) ==
    /\ agg.cls # "none" /\ ~agg.merged /\ Len(agg.A) < MaxLenA
    /\ LET r == metrics_update(agg.a, v)
       IN agg' = [agg EXCEPT !.a = r.m, !.exc = r.exc,
                             !.A = IF r.exc = "none" THEN Append(@, v) ELSE @]
    /\ AggUnchanged

\* b.update(v)
UpdateB(v) ==
    /\ agg.cls # "none" /\ ~agg.merged /\ Len(agg.B) < MaxLenB
    /\ LET r == metrics_update(agg.b, v)
       IN agg' = [agg EXCEPT !.b = r.m, !.exc = r.exc,
                             !.B = IF r.exc = "none" THEN Append(@, v) ELSE @]
    /\ AggUnchanged

\* a.merge(b)
Merge ==
    /\ agg.cls # "none" /\ ~agg.merged
    /\ agg' = [agg EXCEPT !.a = metrics_merge(agg.a, agg.b), !.merged = TRUE, !.exc = "none"]
    /\ AggUnchanged

NextAggregates ==
    \/ \E cls \in Classes : NewAggregates(cls)
    \/ \E v \in SampleVals : UpdateA(v)
    \/ \E v \in SampleVals : UpdateB(v)
    \/ Merge

SpecAggregates == Init /\ [][NextAggregates]_vars

\* ---------------------------------------------------------------------- C20
\* C20: once aggregate(B) has been merged into aggregate(A), the receiver's
\* stored state is that of the aggregate of the concatenation of A and B, and
\* the merged-in aggregate is still aggregate(B).
C20_MergeLaw ==
    agg.merged => agg.a = aggregate(agg.cls, agg.A \o agg.B)
                  /\ agg.b = aggregate(agg.cls, agg.B)

\* the same law for the aggregates whose accumulator is an int, and for the
\* counts of all of them
MergeLawOfInts ==
    agg.merged =>
        /\ agg.cls # "GaugeHMean" => agg.a = aggregate(agg.cls, agg.A \o agg.B)
        /\ agg.a.count = aggregate(agg.cls, agg.A \o agg.B).count
        /\ agg.b = aggregate(agg.cls, agg.B)
        /\ Len(agg.B) <= 1 => agg.a = aggregate(agg.cls, agg.A \o agg.B)

\* ---------------------------------------------------------------------- C27
\* a process_stats call begins (the gate, and what follows it up to the loop)
ProcessStatsStep == fl.pc = "idle" /\ calls' # calls /\ last'.op = "process_stats"
Current == calls[Len(calls)]

\* C27: an unforced process_stats with now - time < interval changes neither
\* the context's data map (nor its entries), nor its time, nor its handler
\* map, and invokes no handler; every other process_stats sets time to now
\* before the first handler runs, and time stays there while the handlers
\* run and after they have run, whether they fail or not.
C27_GateStep ==
    /\ ProcessStatsStep =>
          LET c == calls'[Len(calls')] IN
          IF ~c.force /\ now - ctx_time < ctx_interval
          THEN /\ UNCHANGED <<ctx_data, dicts, objs, ndicts, ctx_time, handlers, fl, snaps>>
               /\ ~c.flushed /\ c.inv = <<>> /\ c.done
          ELSE /\ ctx_time' = now /\ c.flushed /\ c.inv = <<>>
               /\ fl'.pc = "handlers" /\ Len(fl'.todo) = handlers
    /\ fl.pc = "handlers" => ctx_time' = ctx_time /\ ctx_time = Current.t
C27_GatedFlushIsNoOp == [][C27_GateStep]_vars

C27_Witness ==
    /\ Len(calls) = 2 /\ Returned = {1, 2}
    /\ calls[1].flushed /\ calls[1].hs = 1 /\ calls[1].ordinary /\ calls[1].inv = <<1>>
    /\ ~calls[2].flushed /\ calls[2].t > calls[1].t /\ calls[2].inv = <<>>
    /\ ctx_time = calls[1].t /\ ctx_time > 0

\* ---------------------------------------------------------------------- C28
InBackoffWindow == hnd.sock = "none" /\ hnd.retry_set /\ hnd.now < hnd.retry_time

\* C28: a process call that finds no socket and now < retry_time makes no
\* connect attempt and sends nothing, and leaves sock, retry_time and
\* retry_period as they were; one that finds no socket and now >= retry_time
\* makes a connect attempt at its first entry.
C28_BackoffStep ==
    /\ (ProcessStep /\ InBackoffWindow) =>
          /\ hnd'.last.attempts = 0 /\ hnd'.last.sent = 0
          /\ hnd'.sock = hnd.sock /\ hnd'.retry_set = hnd.retry_set
          /\ hnd'.retry_time = hnd.retry_time /\ hnd'.retry_period = hnd.retry_period
    /\ (ProcessStep /\ hnd.sock = "none" /\ hnd.retry_set /\ hnd.now >= hnd.retry_time
          /\ hnd'.last.tried >= 1) =>
          /\ hnd'.last.attempts >= 1
          /\ hnd'.sock = "open" \/ hnd'.last.sent > 0 \/ hnd'.last.send_error
                \/ (hnd'.fail_at = hnd.now /\ hnd'.retry_time > hnd.now)
C28_BackoffWindow == [][C28_BackoffStep]_vars

C28_Witness ==
    /\ hnd.kind = "tcp" /\ InBackoffWindow /\ hnd.now > hnd.fail_at
    /\ hnd.last.n = MaxMetrics /\ hnd.last.attempts = 0 /\ hnd.last.sent = 0

\* ---------------------------------------------------------------------- C29
\* the entries of the last snapshot that emit's loop came to
Reached == hnd.last.tried + (IF hnd.last.enc_error THEN 1 ELSE 0)

\* C29: in every process call of a socket handler the loop of emit comes to
\* every entry of the snapshot, whether or not encoding or sending an
\* earlier entry failed.
C29_PerMetricLocality == Reached = hnd.last.n

\* ------------------------------------------------ stats_metrics.py gauges
\* Two gauges a and b of one class: samples go to each, b is merged into a,
\* a is evaluated.
MaxUpdA == 2            \* updates of the receiver
MaxUpdB == 1            \* updates of the merged-in gauge
MaxGauge == 1           \* largest sample given to a gauge
MaxWeight == 1          \* largest weight given to a weighted mean

GaugeVals == MinSample..MaxGauge
Weights == MinSample..MaxWeight
\* None; Python 2 orders None below every number
None == MinSample - 1

Extrema == {"GaugeMin", "GaugeMax", "GaugeMidRange"}
Keeping == {"GaugeMedian", "GaugeMode"}
Means == {"GaugeAMean", "GaugeGMean", "GaugeHMean", "GaugeQMean"}
Weighted == {"GaugeWAMean", "GaugeWGMean", "GaugeWHMean"}
GaugeClasses == {"Counter", "Gauge"} \cup Extrema \cup Keeping \cup Means \cup Weighted

\* a sample is the number x, or (x, w) for the weighted means; math.log is
\* computed for the sample 1 only
IsSample(cls, x, w) ==
    IF cls = "GaugeWGMean" THEN x <= 1
    ELSE IF cls \in Weighted THEN TRUE
    ELSE w = 0
Sample(cls, x, w) == IF cls \in Weighted THEN <<x, w>> ELSE x

\* list.sort()
RECURSIVE Insert(_, _)
Insert(sorted, x) ==
    IF sorted = <<>> THEN <<x>>
    ELSE IF x < Head(sorted) THEN <<x>> \o sorted
    ELSE <<Head(sorted)>> \o Insert(Tail(sorted), x)
RECURSIVE Sort(_)
Sort(list) == IF list = <<>> THEN <<>> ELSE Insert(Sort(Tail(list)), Head(list))

\* w / float(x) for ints w >= 0 and x > 0
RECURSIVE div_scale(_, _, _)
div_scale(r, v, e) == IF r >= 2 * v THEN div_scale(r, 2 * v, e + 1) ELSE [v |-> v, e |-> e]
float_div(w, x) ==
    IF w = 0 THEN Zero
    ELSE IF w < x THEN LET n == div_norm(w, x, 0)
                       IN float_round(div_bits(n.r, x, DoubleBits + 1), n.e)
    ELSE LET up == div_scale(w, x, 0)
         IN float_round(div_bits(w, up.v, DoubleBits + 1), up.e)

\* __init__() of the classes that are not Counter or a mean
gauge_new(cls) ==
    [cls |-> cls, value |-> None, min |-> None, max |-> None,
     data |-> CASE cls = "GaugeMode" -> [x \in GaugeVals |-> 0]
                [] cls = "GaugeWAMean" -> <<0, 0>>
                [] cls = "GaugeWGMean" -> <<1, 0>>
                [] OTHER -> <<>>,
     sum_v |-> Zero, sum_w |-> 0]
gauge_init(cls) == IF cls \in Means \cup {"Counter"} THEN metrics_init(cls) ELSE gauge_new(cls)

Ok(m) == [m |-> m, exc |-> "none"]
Exc(m, e) == [m |-> m, exc |-> e]

\* update(value) / update(data) with data = (value, weight)
gauge_update(m, v) ==
    CASE m.cls \in Means \cup {"Counter"} -> metrics_update(m, v)
      [] m.cls = "Gauge" -> Ok([m EXCEPT !.value = v])
      [] m.cls = "GaugeMin" ->
            Ok(IF m.value = None \/ v < m.value THEN [m EXCEPT !.value = v] ELSE m)
      [] m.cls = "GaugeMax" ->
            Ok(IF m.value = None \/ v > m.value THEN [m EXCEPT !.value = v] ELSE m)
      [] m.cls = "GaugeMidRange" ->
            Ok([m EXCEPT !.min = IF m.min = None \/ v < m.min THEN v ELSE @,
                         !.max = IF m.max = None \/ v > m.max THEN v ELSE @])
      [] m.cls = "GaugeMedian" -> Ok([m EXCEPT !.data = Append(@, v)])
      [] m.cls = "GaugeMode" -> Ok([m EXCEPT !.data[v] = @ + 1])
      \* data is kept as (weighted sum, weights) for GaugeWAMean, the mean
      \* being their quotient, and as (0.0, weights) for GaugeWGMean
      [] m.cls = "GaugeWAMean" ->
            IF ~(v[2] >= 0) THEN Exc(m, "AssertionError")
            ELSE IF m.data[2] + v[2] = 0 THEN Exc(m, "ZeroDivisionError")
            ELSE Ok([m EXCEPT !.data = <<m.data[1] + v[1] * v[2], m.data[2] + v[2]>>])
      [] m.cls = "GaugeWGMean" ->
            IF ~(v[1] > 0 /\ v[2] >= 0) THEN Exc(m, "AssertionError")
            ELSE IF ~(m.data[1] > 0) THEN Exc(m, "ValueError")
            ELSE IF m.data[2] + v[2] = 0 THEN Exc(m, "ZeroDivisionError")
            ELSE Ok([m EXCEPT !.data = <<0, m.data[2] + v[2]>>])
      [] m.cls = "GaugeWHMean" ->
            IF ~(v[1] > 0 /\ v[2] >= 0) THEN Exc(m, "AssertionError")
            ELSE Ok([m EXCEPT !.sum_v = float_add(@, float_div(v[2], v[1])),
                              !.sum_w = @ + v[2]])

gauge_merge_ignored(self, that) == Ok(self)

\* merge(that); Gauge and the weighted means inherit Metric.merge
gauge_merge(self, that) ==
    CASE self.cls \in Means \cup {"Counter"} -> Ok(metrics_merge(self, that))
      [] self.cls \in {"GaugeMin", "GaugeMax"} -> gauge_update(self, that.value)
      [] self.cls = "GaugeMidRange" ->
            Ok([self EXCEPT
                  !.min = IF self.min = None \/ that.min < self.min THEN that.min ELSE @,
                  !.max = IF self.max = None \/ that.max > self.max THEN that.max ELSE @])
      [] self.cls = "GaugeMedian" -> Ok([self EXCEPT !.data = @ \o that.data])
      [] self.cls = "GaugeMode" ->
            Ok([self EXCEPT !.data = [x \in GaugeVals |-> self.data[x] + that.data[x]]])
      [] OTHER -> Exc(self, "NotImplementedError")

\* eval(): the state it leaves, the exception it raises, and the values it
\* may return (a quotient n/d is the pair <<n, d>>, a root or power is a term)
Result(m, rs) == [m |-> m, exc |-> "none", results |-> rs]
Raises(m, e) == [m |-> m, exc |-> e, results |-> {}]
gauge_eval_total(m) == Result(m, {<<0, 1>>})
gauge_eval_reset(m) == Result(gauge_init(m.cls), {<<0, 1>>})
ModeKeys(data) == {x \in GaugeVals : data[x] > 0}
gauge_eval(m) ==
    CASE m.cls = "Counter" -> Result(m, {<<m.value, 1>>})
      [] m.cls \in {"Gauge", "GaugeMin", "GaugeMax"} -> Result(m, {<<m.value, 1>>})
      [] m.cls = "GaugeMidRange" ->
            IF m.min = None \/ m.max = None THEN Raises(m, "TypeError")
            ELSE Result(m, {<<m.min + m.max, 2>>})
      [] m.cls = "GaugeMedian" ->
            LET sorted == Sort(m.data)
                n == Len(sorted)
                h == n \div 2
                m1 == [m EXCEPT !.data = sorted]
            IN IF n = 0 THEN Raises(m1, "IndexError")
               ELSE IF n % 2 = 1 THEN Result(m1, {<<sorted[h + 1], 1>>})
               ELSE Result(m1, {<<sorted[h] + sorted[h + 1], 2>>})
      [] m.cls = "GaugeMode" ->
            IF ModeKeys(m.data) = {} THEN Raises(m, "ValueError")
            ELSE Result(m, {<<x, 1>> : x \in {x \in ModeKeys(m.data) :
                                              \A y \in GaugeVals : m.data[y] <= m.data[x]}})
      [] m.cls \in Means ->
            IF m.count = 0 THEN Raises(m, "ZeroDivisionError")
            ELSE Result(m, {<<m.cls, m.temp, m.count>>})
      [] m.cls \in {"GaugeWAMean", "GaugeWGMean"} ->
            Result(m, {IF m.data[2] = 0 THEN <<m.data[1], 1>> ELSE m.data})
      [] m.cls = "GaugeWHMean" ->
            IF m.sum_v = Zero THEN Raises(m, "ZeroDivisionError")
            ELSE Result(m, {<<m.sum_w, m.sum_v>>})

CoreUnchanged ==
    UNCHANGED <<dicts, objs, ndicts, ctx_data, snaps, exc, last, merges, nops, phase, used,
                now, ctx_time, ctx_interval, handlers, fl, calls, pending, threads, tlog>>
GaugeUnchanged == CoreUnchanged /\ UNCHANGED <<coll, hnd, lk, cfg, agg, wire>>

\* a = cls(); b = cls()
NewGauges(cls) ==
    /\ gau.cls = "none"
    /\ gau' = [NoGauges EXCEPT !.cls = cls, !.a = gauge_init(cls), !.b = gauge_init(cls)]
    /\ GaugeUnchanged

\* A and B list the samples a and b have taken when the class keeps its
\* samples, and have a 0 for each sample when it does not
Taken(cls, v) == IF cls \in Keeping THEN v ELSE 0

\* a.update(v)
GaugeUpdateA(x, w) ==
    /\ gau.cls # "none"
    /\ IsSample(gau.cls, x, w)
    /\ Len(gau.A) < MaxUpdA
    /\ LET v == Sample(gau.cls, x, w)
           r == gauge_update(gau.a, v)
       IN gau' = [gau EXCEPT !.a = r.m,
                             !.A = IF r.exc = "none" THEN Append(@, Taken(gau.cls, v)) ELSE @,
                             !.last = [op |-> "update", exc |-> r.exc, before |-> gau.a,
                                       arg |-> <<v>>, results |-> {}]]
    /\ GaugeUnchanged

\* b.update(v), for the classes that have a merge
GaugeUpdateB(x, w) ==
    /\ gau.cls \notin Weighted \cup {"none"}
    /\ IsSample(gau.cls, x, w)
    /\ Len(gau.B) < MaxUpdB
    /\ LET v == Sample(gau.cls, x, w)
           r == gauge_update(gau.b, v)
       IN gau' = [gau EXCEPT !.b = r.m,
                             !.B = IF r.exc = "none" THEN Append(@, Taken(gau.cls, v)) ELSE @,
                             !.last = [op |-> "update_b", exc |-> r.exc, before |-> gau.b,
                                       arg |-> <<v>>, results |-> {}]]
    /\ GaugeUnchanged

\* a.merge(b)
GaugeMerge ==
    /\ gau.cls # "none"
    /\ Len(gau.A) + Len(gau.B) <= MaxUpdA + MaxUpdB
    /\ gau.last.op # "merge"
    /\ LET r == gauge_merge(gau.a, gau.b)
       IN gau' = [gau EXCEPT !.a = r.m,
                             !.A = IF r.exc = "none" THEN @ \o gau.B ELSE @,
                             !.last = [op |-> "merge", exc |-> r.exc, before |-> gau.a,
                                       arg |-> <<gau.b>>, results |-> {}]]
    /\ GaugeUnchanged

\* a.eval()
GaugeEval ==
    /\ gau.cls # "none"
    /\ LET r == gauge_eval(gau.a)
       IN gau' = [gau EXCEPT !.a = r.m,
                             !.last = [op |-> "eval", exc |-> r.exc, before |-> gau.a,
                                       arg |-> <<>>, results |-> r.results]]
    /\ GaugeUnchanged

NextGauges ==
    \/ \E cls \in GaugeClasses : NewGauges(cls)
    \/ \E x \in GaugeVals, w \in Weights : GaugeUpdateA(x, w)
    \/ \E x \in GaugeVals, w \in Weights : GaugeUpdateB(x, w)
    \/ GaugeMerge
    \/ GaugeEval

SpecGauges == Init /\ [][NextGauges]_vars

MergeStep == gau.last.op = "merge" /\ gau.last.exc = "none"
Receiver == gau.last.before
Other == gau.last.arg[1]
Lower(s, t) == IF s = None THEN t ELSE IF t = None THEN s ELSE IF t < s THEN t ELSE s
Upper(s, t) == IF s = None THEN t ELSE IF t = None THEN s ELSE IF t > s THEN t ELSE s

\* C22: after merge(other) a GaugeMin (GaugeMax) holds the minimum (maximum)
\* of the two stored values when both are set and the one that is set when
\* only one is, and a GaugeMidRange does so for its min and its max; merging
\* an unset gauge leaves the receiver's stored value as it was
C22_ExtremaMerge ==
    (gau.cls \in Extrema /\ gau.last.op = "merge") =>
        /\ gau.last.exc = "none"
        /\ gau.cls = "GaugeMin" => gau.a.value = Lower(Receiver.value, Other.value)
        /\ gau.cls = "GaugeMax" => gau.a.value = Upper(Receiver.value, Other.value)
        /\ gau.cls = "GaugeMidRange" => /\ gau.a.min = Lower(Receiver.min, Other.min)
                                        /\ gau.a.max = Upper(Receiver.max, Other.max)

\* the samples merged so far, and what the claim says of them
Multiplicity(samples, x) == Cardinality({i \in 1..Len(samples) : samples[i] = x})
\* the k-th smallest sample
OrderStatistic(samples, k) ==
    CHOOSE x \in GaugeVals :
        /\ Cardinality({i \in 1..Len(samples) : samples[i] < x}) < k
        /\ k <= Cardinality({i \in 1..Len(samples) : samples[i] <= x})
MedianOf(samples) ==
    LET n == Len(samples)
    IN IF n % 2 = 1 THEN <<OrderStatistic(samples, (n + 1) \div 2), 1>>
       ELSE <<OrderStatistic(samples, n \div 2) + OrderStatistic(samples, n \div 2 + 1), 2>>
ModesOf(samples) ==
    {<<x, 1>> : x \in {x \in GaugeVals : /\ Multiplicity(samples, x) > 0
                                         /\ \A y \in GaugeVals : Multiplicity(samples, y)
                                                                 <= Multiplicity(samples, x)}}

\* C21: after b is merged into a, a GaugeMedian holds the samples of A
\* followed by B as a multiset and a GaugeMode holds their multiplicities, so
\* eval() gives the median of all the samples (the mean of the two middle ones
\* when their number is even), respectively a sample of maximal multiplicity
C21_MergeLawKeeping ==
    (gau.cls \in Keeping /\ MergeStep) =>
        /\ \A x \in GaugeVals :
              IF gau.cls = "GaugeMedian" THEN Multiplicity(gau.a.data, x) = Multiplicity(gau.A, x)
              ELSE gau.a.data[x] = Multiplicity(gau.A, x)
        /\ gau.A # <<>> =>
              /\ gauge_eval(gau.a).exc = "none"
              /\ gauge_eval(gau.a).results # {}
              /\ IF gau.cls = "GaugeMedian" THEN gauge_eval(gau.a).results = {MedianOf(gau.A)}
                 ELSE gauge_eval(gau.a).results \subseteq ModesOf(gau.A)
C21_Witness ==
    /\ gau.cls = "GaugeMedian" /\ MergeStep
    /\ Len(Receiver.data) = 2 /\ Len(Other.data) = 1
    /\ Receiver.data[1] > Other.data[1] /\ Other.data[1] > Receiver.data[2]

EvalStep == gau.last.op = "eval"

\* C23: eval() of a GaugeAMean, GaugeGMean, GaugeHMean or GaugeQMean whose
\* count is 0 raises an error, returns nothing and leaves the gauge as it was
C23_EmptyMeanRaises ==
    (gau.cls \in Means /\ EvalStep /\ gau.last.before.count = 0) =>
        /\ gau.last.exc # "none"
        /\ gau.last.results = {}
        /\ gau.a = gau.last.before
C23_Witness ==
    /\ gau.cls = "GaugeHMean" /\ EvalStep /\ gau.last.before.count = 0
    /\ gau.last.exc = "ZeroDivisionError" /\ gau.B # <<>> /\ gau.A = <<>>

UpdateStep == gau.last.op = "update"
Given == gau.last.arg[1]
\* the precondition of update: a positive sample for the geometric and the
\* harmonic means, a weight that is not negative for the weighted means
Precondition ==
    /\ gau.cls \in {"GaugeGMean", "GaugeHMean"} => Given > 0
    /\ gau.cls \in {"GaugeWGMean", "GaugeWHMean"} => Given[1] > 0
    /\ gau.cls \in Weighted => Given[2] >= 0

\* C24: update raises an error and leaves the gauge as it was when the sample
\* is not positive (GaugeGMean, GaugeHMean, GaugeWGMean, GaugeWHMean) or the
\* weight is negative (weighted means); every other sample is accepted
C24_SamplePreconditions ==
    (gau.cls \in Positive \cup Weighted /\ UpdateStep) =>
        IF Precondition THEN gau.last.exc = "none"
        ELSE gau.last.exc # "none" /\ gau.a = gau.last.before

\* the abstract state of a gauge: its fields, the list of a GaugeMedian
\* counting as a multiset
Abstract(m) ==
    IF m.cls = "GaugeMedian" THEN [m EXCEPT !.data = [x \in GaugeVals |-> Multiplicity(m.data, x)]]
    ELSE m
\* two gauges that no later call tells apart by one more call
Alike(m1, m2) ==
    /\ Abstract(m1) = Abstract(m2)
    /\ gauge_eval(m1).exc = gauge_eval(m2).exc
    /\ gauge_eval(m1).results = gauge_eval(m2).results

\* C30: eval() leaves the abstract state of the gauge (value, count and
\* accumulator, min and max, sample multiset, multiplicity map) as it was, so
\* that a second eval() gives the same result and an update or a merge after
\* it gives what it gives without it
C30_EvalIsPure ==
    EvalStep =>
        /\ Alike(gau.a, gau.last.before)
        /\ gauge_eval(gau.a).results = gau.last.results
        /\ gauge_eval(gau.a).exc = gau.last.exc
        /\ \A x \in GaugeVals, w \in Weights :
              IsSample(gau.cls, x, w) =>
                 /\ Alike(gauge_update(gau.a, Sample(gau.cls, x, w)).m,
                          gauge_update(gau.last.before, Sample(gau.cls, x, w)).m)
                 /\ gauge_update(gau.a, Sample(gau.cls, x, w)).exc
                       = gauge_update(gau.last.before, Sample(gau.cls, x, w)).exc
        /\ Alike(gauge_merge(gau.a, gau.b).m, gauge_merge(gau.last.before, gau.b).m)
        /\ gauge_merge(gau.a, gau.b).exc = gauge_merge(gau.last.before, gau.b).exc
C30_Witness ==
    /\ EvalStep /\ gau.cls = "GaugeMedian" /\ gau.last.exc = "none"
    /\ gau.a.data # gau.last.before.data /\ gau.B # <<>>

\* ------------------------------------------------ what the handlers write
\* A handler is given snapshots and writes log lines (SkyLogHandler) or
\* hands frames to send (SocketHandler). A snapshot is the sequence of its
\* items in the dictionary's iteration order. emitted, lines, frames and exc
\* describe the last emit call, until the next snapshot is begun.
MaxEntries == 2         \* items of a snapshot
MaxEmits == 2           \* emit calls on one handler
MaxByte == 2            \* pickles are up to 256^MaxByte + 1 bytes long

Alphabet == <<"a", "b">>
Ord(c) == CHOOSE i \in 1..Len(Alphabet) : Alphabet[i] = c
WireKeys == {<<"a">>, <<"a", "b">>, <<"b">>}
Sizes == {256 ^ i + 1 : i \in 0..MaxByte}
\* the values of a snapshot: a plain number or a metric
WireMetrics ==
    {[cls |-> "int", value |-> 1, min |-> None, max |-> None, count |-> 0],
     [cls |-> "Counter", value |-> -1, min |-> None, max |-> None, count |-> 0],
     [cls |-> "Timer", value |-> 1, min |-> None, max |-> None, count |-> 0],
     [cls |-> "Gauge", value |-> None, min |-> None, max |-> None, count |-> 0],
     [cls |-> "GaugeMidRange", value |-> None, min |-> 0, max |-> 1, count |-> 0],
     [cls |-> "GaugeAMean", value |-> None, min |-> None, max |-> None, count |-> 0]}

\* str.__lt__
RECURSIVE StrLess(_, _)
StrLess(s, t) ==
    IF t = <<>> THEN FALSE
    ELSE IF s = <<>> THEN TRUE
    ELSE IF Head(s) # Head(t) THEN Ord(Head(s)) < Ord(Head(t))
    ELSE StrLess(Tail(s), Tail(t))
\* sorted(data.keys())
RECURSIVE InsertKey(_, _)
InsertKey(sorted, k) ==
    IF sorted = <<>> THEN <<k>>
    ELSE IF StrLess(k, Head(sorted)) THEN <<k>> \o sorted
    ELSE <<Head(sorted)>> \o InsertKey(Tail(sorted), k)
RECURSIVE SortedKeys(_)
SortedKeys(data) ==
    IF data = <<>> THEN <<>> ELSE InsertKey(SortedKeys(Tail(data)), Head(data).k)
\* data[k]
Item(data, k) == data[CHOOSE i \in 1..Len(data) : data[i].k = k].m

\* str() of an int, of a float that is n2 / 2, and of None
Digit(d) == <<"0", "1", "2", "3", "4", "5", "6", "7", "8", "9">>[d + 1]
RECURSIVE Decimal(_)
Decimal(n) == IF n < 10 THEN <<Digit(n)>> ELSE Decimal(n \div 10) \o <<Digit(n % 10)>>
int_str(n) ==
    IF n = None THEN <<"N", "o", "n", "e">>
    ELSE IF n < 0 THEN <<"-">> \o Decimal(-n) ELSE Decimal(n)
float_str(n2) ==
    IF n2 < 0 THEN <<"-">> \o Decimal((-n2) \div 2) \o <<".", IF (-n2) % 2 = 1 THEN "5" ELSE "0">>
    ELSE Decimal(n2 \div 2) \o <<".", IF n2 % 2 = 1 THEN "5" ELSE "0">>

\* metric.eval(): the value v (a float when half is set), or the exception
wire_eval(m) ==
    CASE m.cls \in {"Counter", "Gauge"} -> [exc |-> "none", v |-> m.value, half |-> FALSE]
      [] m.cls = "GaugeMidRange" ->
            IF m.min = None \/ m.max = None THEN [exc |-> "TypeError", v |-> 0, half |-> FALSE]
            ELSE [exc |-> "none", v |-> m.min + m.max, half |-> TRUE]
      [] m.cls = "GaugeAMean" ->
            IF m.count = 0 THEN [exc |-> "ZeroDivisionError", v |-> 0, half |-> FALSE]
            ELSE [exc |-> "none", v |-> 2 * m.value, half |-> TRUE]
      [] OTHER -> [exc |-> "NotImplementedError", v |-> 0, half |-> FALSE]
\* "%s" % value: str(number), Metric.__str__ (render_text), Timer.__str__
metric_str(m) ==
    IF m.cls \in {"int", "Timer"} THEN [exc |-> "none", s |-> int_str(m.value)]
    ELSE LET r == wire_eval(m)
         IN [exc |-> r.exc,
             s |-> IF r.exc # "none" THEN <<>>
                   ELSE IF r.half THEN float_str(r.v) ELSE int_str(r.v)]

\* ", ".join(buf)
RECURSIVE Join(_)
Join(buf) ==
    IF buf = <<>> THEN <<>>
    ELSE IF Len(buf) = 1 THEN buf[1]
    ELSE buf[1] \o <<",", " ">> \o Join(Tail(buf))
\* the try block of SkyLogHandler.emit: the lines logged, and the exception
\* that handle_error is given
log_format(data) ==
    LET keys == SortedKeys(data)
        strs == [i \in 1..Len(keys) |-> metric_str(Item(data, keys[i]))]
        buf == [i \in 1..Len(keys) |-> keys[i] \o <<":", " ">> \o strs[i].s]
        bad == {i \in 1..Len(keys) : strs[i].exc # "none"}
    IN IF data = <<>> THEN [lines |-> << <<"{", "}">> >>, exc |-> "none"]
       ELSE IF bad # {}
       THEN [lines |-> <<>>, exc |-> strs[CHOOSE i \in bad : \A j \in bad : i <= j].exc]
       ELSE [lines |-> << <<"{">> \o Join(buf) \o <<"}">> >>, exc |-> "none"]
\* stats_handlers.SkyLogHandler.emit returns at once for an empty snapshot
log_emit_guarded(data) ==
    IF Len(data) = 0 THEN [lines |-> <<>>, exc |-> "none"] ELSE log_format(data)
\* stats.SkyLogHandler.emit
log_emit_plain(data) == log_format(data)

\* d.update(e) for dictionaries with string keys
DictUpdate(d, e) == [f \in DOMAIN d \cup DOMAIN e |-> IF f \in DOMAIN e THEN e[f] ELSE d[f]]
\* the value eval returned, as a dictionary value
Value(r) == IF r.half THEN <<r.v, 2>> ELSE <<r.v, 1>>
\* metric.render_dict(); a plain number has no such attribute, Timer inherits
\* Metric.render_dict
render_dict(m) ==
    CASE m.cls = "int" -> [exc |-> "AttributeError", d |-> <<>>]
      [] m.cls = "Timer" -> [exc |-> "NotImplementedError", d |-> <<>>]
      [] OTHER ->
            LET r == wire_eval(m)
            IN IF r.exc # "none" THEN [exc |-> r.exc, d |-> <<>>]
               ELSE IF m.cls = "GaugeMidRange"
               THEN [exc |-> "none",
                     d |-> [value |-> Value(r), min |-> <<m.min, 1>>, max |-> <<m.max, 1>>]]
               ELSE [exc |-> "none", d |-> [value |-> Value(r)]]
\* type(m).__name__
type_name(m) == m.cls
\* Handler.enrich(metric): the type attribute is the callable one
enrich(extra_attrs, m) ==
    [f \in DOMAIN extra_attrs |-> IF f = "type" THEN type_name(m) ELSE extra_attrs[f]]
\* struct.pack(">L", n)
pack_big(n) == <<(n \div 16777216) % 256, (n \div 65536) % 256, (n \div 256) % 256, n % 256>>
\* the frame of a pickle of n bytes that encodes d
frame_of(d, n) ==
    IF n \div 65536 >= 65536 THEN [exc |-> "struct.error", head |-> <<>>, d |-> d, n |-> n]
    ELSE [exc |-> "none", head |-> pack_big(n), d |-> d, n |-> n]
FrameExc(e) == [exc |-> e, head |-> <<>>, d |-> <<>>, n |-> 0]
\* stats_handlers.SocketHandler.make_pickle(metric, name = name), cPickle.dumps
\* giving n bytes
make_pickle(extra_attrs, m, name, n) ==
    LET r == render_dict(m)
        d == IF r.exc = "AttributeError" THEN [value |-> <<m.value, 1>>] ELSE r.d
    IN IF r.exc \notin {"none", "AttributeError"} THEN FrameExc(r.exc)
       ELSE frame_of(DictUpdate(DictUpdate(d, enrich(extra_attrs, m)), [name |-> name]), n)
\* stats.SocketHandler.make_pickle(metric, name = name)
make_pickle_plain(extra_attrs, m, name, n) ==
    LET r == render_dict(m)
        d == IF r.exc = "AttributeError" THEN [value |-> <<m.value, 1>>] ELSE r.d
    IN IF r.exc \notin {"none", "AttributeError"} THEN FrameExc(r.exc)
       ELSE frame_of(DictUpdate(d, [name |-> name]), n)
\* the loop of SocketHandler.emit: the frames given to send, up to the first
\* exception
RECURSIVE frames_of(_, _, _)
frames_of(kind, extra_attrs, data) ==
    IF data = <<>> THEN [frames |-> <<>>, exc |-> "none"]
    ELSE LET e == Head(data)
             f == IF kind = "tcp" THEN make_pickle(extra_attrs, e.m, e.k, e.n)
                  ELSE make_pickle_plain(extra_attrs, e.m, e.k, e.n)
             rest == frames_of(kind, extra_attrs, Tail(data))
         IN IF f.exc # "none" THEN [frames |-> <<>>, exc |-> f.exc]
            ELSE [frames |-> <<f>> \o rest.frames, exc |-> rest.exc]

WireUnchanged == CoreUnchanged /\ UNCHANGED <<coll, hnd, lk, cfg, agg, gau>>
WireKinds == {"log", "log_stats", "tcp", "tcp_stats"}
ExtraAttrs == {[type |-> "callable"], [type |-> "callable", name |-> <<"x">>]}

\* handler = cls(url); handler.configure(extra_attrs = ...)
NewWire(kind, extra_attrs) ==
    /\ wire.kind = "none"
    /\ kind = "tcp" \/ extra_attrs = NoWire.extra_attrs
    /\ wire' = [NoWire EXCEPT !.kind = kind, !.extra_attrs = extra_attrs]
    /\ WireUnchanged

\* the next snapshot gets the item k: m, last in its iteration order
WirePut(k, m, n) ==
    /\ wire.kind # "none"
    /\ wire.emits < MaxEmits
    /\ Len(wire.data) < MaxEntries
    /\ \A j \in 1..Len(wire.data) : wire.data[j].k # k
    /\ wire.kind \in {"tcp", "tcp_stats"} \/ n = 2
    /\ wire' = [wire EXCEPT !.data = Append(@, [k |-> k, m |-> m, n |-> n]),
                            !.emitted = <<>>, !.lines = <<>>, !.frames = <<>>, !.exc = "none"]
    /\ WireUnchanged

\* handler.emit(data)
WireEmit ==
    /\ wire.kind # "none"
    /\ wire.emits < MaxEmits
    /\ LET log == IF wire.kind = "log" THEN log_emit_guarded(wire.data)
                  ELSE log_emit_plain(wire.data)
           tcp == frames_of(wire.kind, wire.extra_attrs, wire.data)
       IN wire' = IF wire.kind \in {"log", "log_stats"}
                  THEN [wire EXCEPT !.emitted = wire.data, !.data = <<>>, !.emits = @ + 1,
                                    !.lines = log.lines, !.exc = log.exc]
                  ELSE [wire EXCEPT !.emitted = wire.data, !.data = <<>>, !.emits = @ + 1,
                                    !.frames = tcp.frames, !.exc = tcp.exc]
    /\ WireUnchanged

NextWire ==
    \/ \E kind \in WireKinds, extra_attrs \in ExtraAttrs : NewWire(kind, extra_attrs)
    \/ \E k \in WireKeys, m \in WireMetrics, n \in Sizes : WirePut(k, m, n)
    \/ WireEmit

SpecWire == Init /\ [][NextWire]_vars

Emitted == wire.emits > 0 /\ wire.data = <<>>
\* the r-th key of a snapshot, counting upwards
KeyAt(data, r) ==
    CHOOSE k \in {data[i].k : i \in 1..Len(data)} :
        Cardinality({j \in 1..Len(data) : StrLess(data[j].k, k)}) = r - 1
\* "key: value" for each key upwards, between braces
RECURSIVE EntriesFrom(_, _)
EntriesFrom(data, r) ==
    IF r > Len(data) THEN <<>>
    ELSE (IF r > 1 THEN <<",", " ">> ELSE <<>>)
         \o KeyAt(data, r) \o <<":", " ">> \o metric_str(Item(data, KeyAt(data, r))).s
         \o EntriesFrom(data, r + 1)
LineOf(data) == <<"{">> \o EntriesFrom(data, 1) \o <<"}">>
Printable(data) == \A i \in 1..Len(data) : metric_str(data[i].m).exc = "none"

\* C25: the text log handler logs nothing for an empty snapshot, and for a
\* snapshot that is not empty (its values having a text) it logs exactly one
\* line, with one "key: value" entry for each key, the keys ascending
C25_TextLog ==
    (wire.kind \in {"log", "log_stats"} /\ Emitted) =>
        IF wire.emitted = <<>> THEN wire.lines = <<>>
        ELSE Printable(wire.emitted) => wire.lines = <<LineOf(wire.emitted)>>

BigEndian(head) == ((head[1] * 256 + head[2]) * 256 + head[3]) * 256 + head[4]
\* the values of a snapshot that have a value: numbers, timers, and the
\* gauges whose eval returns
Valued(m) == m.cls \in {"int", "Timer"} \/ wire_eval(m).exc = "none"

\* C26: for every metric of a snapshot the socket handler makes a frame of
\* four bytes, the big-endian length of the pickle, followed by the pickle of
\* a dictionary that has the metric's rendered fields (the number itself as
\* value for a plain number), its class name as type and its key as name,
\* whatever the rendered fields and the extra attributes say of name
C26_PickleFraming ==
    (wire.kind \in {"tcp", "tcp_stats"} /\ Emitted
        /\ \A i \in 1..Len(wire.emitted) : Valued(wire.emitted[i].m)) =>
        /\ Len(wire.frames) = Len(wire.emitted)
        /\ \A i \in 1..Len(wire.frames) :
              LET f == wire.frames[i]
                  e == wire.emitted[i]
              IN /\ Len(f.head) = 4 /\ BigEndian(f.head) = f.n /\ f.n = e.n
                 /\ "name" \in DOMAIN f.d /\ f.d.name = e.k
                 /\ "type" \in DOMAIN f.d /\ f.d.type = e.m.cls
                 /\ "value" \in DOMAIN f.d
                 /\ e.m.cls = "int" => f.d.value = <<e.m.value, 1>>
                 /\ e.m.cls = "GaugeMidRange" =>
                       /\ "min" \in DOMAIN f.d /\ f.d.min = <<e.m.min, 1>>
                       /\ "max" \in DOMAIN f.d /\ f.d.max = <<e.m.max, 1>>

\* C31: in every state of a socket handler a connected socket has
\* retry_time None, a retry_time that is set has its retry_period between
\* retry_start and retry_max, and the first connect that fails after one that
\* succeeded (fails counts the failures since) has the period retry_start
C31_ReconnectInvariant ==
    /\ hnd.sock = "open" => ~hnd.retry_set
    /\ hnd.retry_set => retry_start <= hnd.retry_period /\ hnd.retry_period <= retry_max
    /\ (hnd.retry_set /\ hnd.fails = 1) => hnd.retry_period = retry_start
\* a call that connects, loses the socket at the send and fails to connect
\* for its next metric
C31_Witness ==
    /\ hnd.kind = "tcp" /\ hnd.last.tried = 2 /\ hnd.last.attempts = 2
    /\ ~hnd.last.had_sock /\ hnd.last.send_error
    /\ hnd.sock = "none" /\ hnd.retry_set /\ hnd.fails = 1
    /\ hnd.retry_period = retry_start /\ hnd.now > retry_start

\* ------------------------------------------------------------ GaugeTimedAvg
\* One GaugeTimedAvg a, with time.time() read from the clock now. A lists
\* the value the gauge held in each unit of time that its calls accounted for.
\* GaugeTimedAvg.__init__(value) at time t
timed_init(value, t) == [cls |-> "GaugeTimedAvg", wa |-> gauge_new("GaugeWAMean"),
                         time |-> t, cval |-> value]
\* GaugeTimedAvg.update(value) at time t
timed_update(g, value, t) ==
    LET r == gauge_update(g.wa, <<g.cval, t - g.time>>)
    IN IF r.exc # "none" THEN Exc(g, r.exc)
       ELSE Ok([g EXCEPT !.wa = r.m, !.cval = value, !.time = t])
\* GaugeTimedAvg.eval() at time t
timed_eval(g, t) ==
    LET r == timed_update(g, g.cval, t)
    IN IF r.exc # "none" THEN Raises(g, r.exc)
       ELSE Result(r.m, gauge_eval(r.m.wa).results)
Repeat(v, n) == IF n = 0 THEN <<>> ELSE [i \in 1..n |-> v]

\* a = GaugeTimedAvg(value)
NewTimed(value) ==
    /\ gau.cls = "none"
    /\ gau' = [NoGauges EXCEPT !.cls = "GaugeTimedAvg", !.a = timed_init(value, now)]
    /\ GaugeUnchanged

\* a.update(value)
TimedUpdate(value) ==
    /\ gau.cls = "GaugeTimedAvg"
    /\ LET r == timed_update(gau.a, value, now)
       IN gau' = [gau EXCEPT !.a = r.m,
                             !.A = IF r.exc = "none"
                                   THEN @ \o Repeat(gau.a.cval, now - gau.a.time) ELSE @,
                             !.last = [op |-> "update", exc |-> r.exc, before |-> gau.a,
                                       arg |-> <<value>>, results |-> {}]]
    /\ GaugeUnchanged

\* a.eval()
TimedEval ==
    /\ gau.cls = "GaugeTimedAvg"
    /\ LET r == timed_eval(gau.a, now)
       IN gau' = [gau EXCEPT !.a = r.m,
                             !.A = IF r.exc = "none"
                                   THEN @ \o Repeat(gau.a.cval, now - gau.a.time) ELSE @,
                             !.last = [op |-> "eval", exc |-> r.exc, before |-> gau.a,
                                       arg |-> <<>>, results |-> r.results]]
    /\ GaugeUnchanged

NextTimed ==
    \/ \E value \in GaugeVals : NewTimed(value)
    \/ \E value \in GaugeVals : TimedUpdate(value)
    \/ TimedEval
    \/ Tick

SpecTimed == Init /\ [][NextTimed]_vars

RECURSIVE SumOf(_)
SumOf(values) == IF values = <<>> THEN 0 ELSE Head(values) + SumOf(Tail(values))

\* C32: with a clock that never goes back, every update and every eval of a
\* GaugeTimedAvg returns without an exception, also when no time has passed
\* since the gauge was made or last called, and eval returns the average over
\* time of the values the gauge has held
C32_TimedAvgNeverFails ==
    (gau.cls = "GaugeTimedAvg" /\ gau.last.op \in {"update", "eval"}) =>
        /\ gau.last.exc = "none"
        /\ gau.last.op = "eval" => gau.last.results = {<<SumOf(gau.A), Len(gau.A)>>}

====
